---- MODULE Spec2Model ----
(***************************************************************************)
(* A model of the FIFO storage engine (FIFOEngine): the Evaluator          *)
(* (evaluate_threshold), the Reaper (execute_cleanup), the Forecaster      *)
(* (compute_forecast / store_forecast), the Store tables they write and    *)
(* the pipeline cycles that bind them (fifo_execute_full,                  *)
(* Scheduler::execute_once, and the single-step facade calls).             *)
(*                                                                         *)
(* Numbers.  The code computes in C++ double.  The model computes the same *)
(* expressions exactly, as rationals [n |-> numerator, d |-> denominator]  *)
(* with d > 0; sizes of files and daily totals are whole MB.  Rounding of  *)
(* the floating-point unit is not modelled.                                *)
(*                                                                         *)
(* Dates.  A "%04d-%02d-%02d" date string is modelled by its day number:   *)
(* the strings have a fixed width, so their lexicographic order (the order *)
(* of std::map<std::string, ...> and of std::sort on them) is the order of *)
(* the day numbers.                                                        *)
(***************************************************************************)
EXTENDS Integers, Sequences, FiniteSets, TLC

VARIABLES
    files,          \* the std::vector<ScannedFile> handed to execute_cleanup
    disk,           \* the paths that exist on the filesystem
    deletion_log,   \* table deletion_log, in insertion (id) order
    run,            \* the last call of execute_cleanup: its inputs and what it did
    ev,             \* the last call of evaluate_threshold: its inputs and its result
    storage_history,   \* table storage_history, in insertion (id) order
    storage_forecast,  \* table storage_forecast, in insertion (id) order
    clock,          \* the clock, in seconds: what time(nullptr) returns
    fc,             \* the last call of compute_forecast: its inputs and its result
    configuration,  \* table configuration, in rowid order ("last_run" apart)
    twin,           \* a second engine on a copy of the store, given the same calls
    g_db_open,      \* g_db.is_open(): the facade's connection to the store
    g_last_scan,    \* the facade's cached ScanResult
    g_last_forecast,   \* the facade's cached ForecastData
    last_run,       \* the value stored under the configuration key "last_run"
    cycle,          \* the last pipeline cycle: its inputs and what it did
    ncycles,        \* the number of pipeline cycles started so far
    g_scheduler,    \* the facade's Scheduler: running_, config_, last_run_
    worker,         \* the thread held by g_scheduler.thread_, in run_loop
    g_mutex,        \* the facade's mutex: "free" or the thread that holds it
    callers,        \* the threads calling the facade: where each one is in its call
    ncalls,         \* the number of facade calls the caller threads made so far
    process         \* "running", or "terminated" once std::terminate was called

vars == <<files, disk, deletion_log, run, ev, storage_history, storage_forecast, clock, fc,
          configuration, twin,
          g_db_open, g_last_scan, g_last_forecast, last_run, cycle, ncycles,
         g_scheduler, worker, g_mutex, callers, ncalls, process>>

\* The variables of the facade and of the pipeline cycles.
pipeVars == <<g_db_open, g_last_scan, g_last_forecast, last_run, cycle, ncycles>>

schedVars == <<g_scheduler, worker, g_mutex, callers, ncalls, process>>

\* The variables of the store's history and forecast tables and of the clock.
forecastVars == <<storage_history, storage_forecast, fc, configuration, twin>>

\* The variables of the Reaper.
reapVars == <<files, disk, deletion_log, run>>

----------------------------------------------------------------------------
(* Exact arithmetic for the code's doubles.                                *)

Q(num, den) == [n |-> num, d |-> den]

QInt(i) == [n |-> i, d |-> 1]

QLt(a, b) == a.n * b.d < b.n * a.d

QLe(a, b) == a.n * b.d <= b.n * a.d

QEq(a, b) == a.n * b.d = b.n * a.d

QAdd(a, b) == [n |-> a.n * b.d + b.n * a.d, d |-> a.d * b.d]

QSub(a, b) == [n |-> a.n * b.d - b.n * a.d, d |-> a.d * b.d]

QMul(a, b) == [n |-> a.n * b.n, d |-> a.d * b.d]

\* a / k for a whole k > 0
QDivInt(a, k) == [n |-> a.n, d |-> a.d * k]

QZero == QInt(0)

\* The lowest-terms form of a rational, so that equal values are equal records.
RECURSIVE Gcd(_, _)
Gcd(a, b) == IF b = 0 THEN a ELSE Gcd(b, a % b)

Abs(x) == IF x < 0 THEN -x ELSE x

QNorm(a) ==
    LET g == Gcd(Abs(a.n), a.d)
    IN  IF g = 0 THEN a ELSE [n |-> a.n \div g, d |-> a.d \div g]

----------------------------------------------------------------------------
(* Program constants.                                                      *)

MinSurvivors == 5

SecondsPerHour == 3600

SecondsPerDay == 86400

\* The local calendar day of a clock value, as a day number.
Today(t) == t \div SecondsPerDay

DefaultRetentionHours == 24

DefaultMaxDeletions == 500

----------------------------------------------------------------------------
(* ScannedFile and the Reaper, execute_cleanup.                            *)

\* struct ScannedFile; full_path is a path identifier.
ScannedFile(path, size, ctime, entity) ==
    [full_path |-> path, size_mb |-> size, created_time |-> ctime,
     asset |-> entity[1], index_val |-> entity[2], category |-> entity[3]]

\* struct EntityKey {asset, index_val, category} of a file.
EntityKey(f) == <<f.asset, f.index_val, f.category>>

\* struct DeletionRecord as execute_cleanup fills it.
DeletionRecord(f) ==
    [file_path |-> f.full_path, asset |-> f.asset, size_mb |-> f.size_mb,
     reason |-> "PREDICTIVE_CLEANUP"]

Range(s) == {s[i] : i \in DOMAIN s}

\* std::sort with the comparator a.created_time < b.created_time.  std::sort is
\* not stable: every arrangement of the vector that is ascending in
\* created_time is a possible outcome.
RECURSIVE SortedArrangements(_, _)
SortedArrangements(fs, S) ==
    IF S = {} THEN {<<>>}
    ELSE LET least == {i \in S : \A j \in S : fs[i].created_time <= fs[j].created_time}
         IN  UNION {{<<fs[i]>> \o t : t \in SortedArrangements(fs, S \ {i})} : i \in least}

\* Mutant: the comparator reversed (a.created_time > b.created_time).
SortByCreatedTimeDescending(fs) ==
    {[i \in DOMAIN t |-> t[Len(t) + 1 - i]] : t \in SortedArrangements(fs, DOMAIN fs)}

SortByCreatedTime(fs) == SortedArrangements(fs, DOMAIN fs)

\* std::map<EntityKey,int> entity_counts after the counting loop.
EntityCounts(fs) ==
    [e \in {EntityKey(fs[i]) : i \in DOMAIN fs} |->
        Cardinality({i \in DOMAIN fs : EntityKey(fs[i]) = e})]

\* Mutant: the retention window taken in minutes (min_retention_hours * 60).
CutoffInMinutes(now, min_retention_hours) == now - (min_retention_hours * 60)

\* time_t cutoff = now - (min_retention_hours * 3600)
Cutoff(now, min_retention_hours) == now - (min_retention_hours * SecondsPerHour)

\* Mutant: the budget test made strict (freed > amount_to_delete_mb).
LoopStopsBudgetStrict(acc, amount, max_deletions) ==
    QLt(amount, QInt(acc.freed)) \/ acc.count >= max_deletions

\* Mutant: the cap test made strict (count > max_deletions).
LoopStopsCapStrict(acc, amount, max_deletions) ==
    QLe(amount, QInt(acc.freed)) \/ acc.count > max_deletions

\* The loop's stop test: freed >= amount_to_delete_mb || count >= max_deletions
LoopStops(acc, amount, max_deletions) ==
    QLe(amount, QInt(acc.freed)) \/ acc.count >= max_deletions

\* if (f.created_time > cutoff) continue;
TooRecent(f, cutoff) == f.created_time > cutoff

\* Mutant: the floor test made strict (entity_counts[ek] < 5).
AtSurvivorFloorStrict(acc, f) == acc.entity_counts[EntityKey(f)] < MinSurvivors

\* if (entity_counts[ek] <= 5) continue;
AtSurvivorFloor(acc, f) == acc.entity_counts[EntityKey(f)] <= MinSurvivors

\* The body of if (DeleteFileA(...)) { ... }: the audit row (when the insert
\* succeeds; its return value is not looked at), then the three counters.
AfterDelete(acc, f, logOk) ==
    [acc EXCEPT !.logged = IF logOk THEN Append(@, DeletionRecord(f)) ELSE @,
                !.deleted = Append(@, f),
                !.freed = @ + f.size_mb,
                !.count = @ + 1,
                !.entity_counts[EntityKey(f)] = @ - 1]

\* Mutant: a failed DeleteFileA still takes one off the entity's counter.
AfterFailedDeleteDecrements(acc, f) ==
    [acc EXCEPT !.entity_counts[EntityKey(f)] = @ - 1]

\* DeleteFileA returned zero, or the catch (...) clause was entered: nothing is
\* logged and no counter moves.
AfterFailedDelete(acc, f) == acc

\* for (auto& f : files) { ... } from position i on.  canDelete: the paths on
\* which DeleteFileA returns nonzero when first called; logFail: the paths whose
\* log_deletion insert fails.
RECURSIVE CleanupLoop(_, _, _, _, _, _, _, _)
CleanupLoop(fs, i, acc, amount, cutoff, max_deletions, canDelete, logFail) ==
    IF i > Len(fs) THEN acc
    ELSE IF LoopStops(acc, amount, max_deletions) THEN acc
    ELSE LET f == fs[i]
             next(a) == CleanupLoop(fs, i + 1, a, amount, cutoff, max_deletions,
                                    canDelete, logFail)
         IN  IF TooRecent(f, cutoff) THEN next(acc)
             ELSE IF AtSurvivorFloor(acc, f) THEN next(acc)
             ELSE LET tried == [acc EXCEPT !.attempts =
                                   Append(@, [file |-> f, freed |-> acc.freed,
                                              count |-> acc.count,
                                              survivors |->
                                                  acc.entity_counts[EntityKey(f)]])]
                      gone == f.full_path \in {g.full_path : g \in Range(acc.deleted)}
                  IN  IF f.full_path \in canDelete /\ ~gone
                      THEN next(AfterDelete(tried, f, f.full_path \notin logFail))
                      ELSE next(AfterFailedDelete(tried, f))

\* Mutant: the early exit taken for a negative amount only.
EarlyExitStrict(fs, amount) == QLt(amount, QZero) \/ fs = <<>>

\* if (amount_to_delete_mb <= 0 || files.empty()) return stats;
EarlyExit(fs, amount) == QLe(amount, QZero) \/ fs = <<>>

\* execute_cleanup on the vector as sorted: what the call did and returned.
\* The early exit leaves the vector alone; otherwise the vector is left sorted.
ExecuteCleanup(fs, sorted, amount, min_retention_hours, max_deletions, now, canDelete, logFail) ==
    LET start == [freed |-> 0, count |-> 0, entity_counts |-> EntityCounts(fs),
                  deleted |-> <<>>, logged |-> <<>>, attempts |-> <<>>]
        early == EarlyExit(fs, amount)
        acc   == IF early THEN start
                 ELSE CleanupLoop(sorted, 1, start, amount,
                                  Cutoff(now, min_retention_hours), max_deletions,
                                  canDelete, logFail)
    IN  [files |-> IF early THEN fs ELSE sorted,
         files_deleted |-> acc.count, mb_freed |-> acc.freed,
         deleted |-> acc.deleted, logged |-> acc.logged, attempts |-> acc.attempts]

----------------------------------------------------------------------------
(* The Evaluator, evaluate_threshold.                                      *)

FIFO_ACTION_SAFE == 0

FIFO_ACTION_MONITOR == 1

FIFO_ACTION_CAUTION == 2

FIFO_ACTION_CLEANUP == 3

\* The thresholds 85.0, 90.0, 95.0 (percent) and the target 0.70 (as percent).
SafeBelowPct == 85

MonitorBelowPct == 90

CautionBelowPct == 95

CleanupTargetPct == 70

\* double pct = (predicted_mb / limit_mb) * 100.0, for limit_mb > 0.
Pct(predicted_mb, limit_mb) == QMul(QDivInt(predicted_mb, limit_mb), QInt(100))

\* Mutant: a threshold test that also takes the threshold itself (pct <= t).
PctBelowOrAt(pct, t) == QLe(pct, QInt(t))

\* if (pct < t)
PctBelow(pct, t) == QLt(pct, QInt(t))

\* double target_mb = limit_mb * 0.70
TargetMb(limit_mb) == QMul(QInt(limit_mb), Q(CleanupTargetPct, 100))

\* evaluate_threshold: the action returned and the value left in
\* *amount_to_delete.  predicted_mb is a rational, limit_mb a whole number.
EvaluateThreshold(predicted_mb, limit_mb) ==
    IF limit_mb <= 0 THEN [action |-> FIFO_ACTION_SAFE, amount |-> QZero]
    ELSE LET pct == Pct(predicted_mb, limit_mb)
             to_delete == QSub(predicted_mb, TargetMb(limit_mb))
         IN  IF PctBelow(pct, SafeBelowPct)
                 THEN [action |-> FIFO_ACTION_SAFE, amount |-> QZero]
             ELSE IF PctBelow(pct, MonitorBelowPct)
                 THEN [action |-> FIFO_ACTION_MONITOR, amount |-> QZero]
             ELSE IF PctBelow(pct, CautionBelowPct)
                 THEN [action |-> FIFO_ACTION_CAUTION, amount |-> QZero]
             ELSE [action |-> FIFO_ACTION_CLEANUP,
                   amount |-> IF QLt(to_delete, QZero) THEN QZero ELSE QNorm(to_delete)]

----------------------------------------------------------------------------
(* The Forecaster, compute_forecast and store_forecast, and the Store      *)
(* operations they use.                                                    *)

HistoryDays == 14

MovingWindow == 7

\* struct StorageRecord, a row of storage_history.
StorageRecord(asset, index_val, category, date, size_mb, file_count) ==
    [asset |-> asset, index_val |-> index_val, category |-> category, date |-> date,
     size_mb |-> size_mb, file_count |-> file_count]

\* Database::get_history(days) with no entity filter: the rows with
\* measurement_date >= date('now','localtime','-<days> days'), in table order.
\* (ORDER BY measurement_date leaves rows of one date in any order; the only
\* reader, compute_forecast, adds them up per date.)
RECURSIVE GetHistory(_, _, _)
GetHistory(rows, day, days) ==
    IF rows = <<>> THEN <<>>
    ELSE LET rest == GetHistory(Tail(rows), day, days)
         IN  IF Head(rows).date >= day - days THEN <<Head(rows)>> \o rest ELSE rest

\* Mutant: the total of a date taken from its last row (= in place of +=).
RECURSIVE DailyTotalsLastRow(_, _)
DailyTotalsLastRow(history, acc) ==
    IF history = <<>> THEN acc
    ELSE LET r == Head(history)
         IN  DailyTotalsLastRow(Tail(history),
                                [d \in DOMAIN acc \cup {r.date} |->
                                    IF d = r.date THEN r.size_mb ELSE acc[d]])

\* for (auto& rec : history) daily_totals[rec.date] += rec.size_mb;
RECURSIVE DailyTotals(_, _)
DailyTotals(history, acc) ==
    IF history = <<>> THEN acc
    ELSE LET r == Head(history)
             upd == IF r.date \in DOMAIN acc
                    THEN [acc EXCEPT ![r.date] = @ + r.size_mb]
                    ELSE [d \in DOMAIN acc \cup {r.date} |->
                             IF d = r.date THEN r.size_mb ELSE acc[d]]
         IN  DailyTotals(Tail(history), upd)

\* sorted_days: the pairs (date, total) of the map in ascending date order.
RECURSIVE SortedDays(_)
SortedDays(totals) ==
    IF DOMAIN totals = {} THEN <<>>
    ELSE LET d == CHOOSE x \in DOMAIN totals : \A y \in DOMAIN totals : x <= y
         IN  <<[date |-> d, total |-> totals[d]]>>
                 \o SortedDays([y \in DOMAIN totals \ {d} |-> totals[y]])

\* for (i = days_available - window; i < days_available; ++i) sum += ...
RECURSIVE SumFrom(_, _)
SumFrom(sorted_days, i) ==
    IF i > Len(sorted_days) THEN 0 ELSE sorted_days[i].total + SumFrom(sorted_days, i + 1)

\* int window = std::min(7, fd.days_available)
WindowOf(days_available) ==
    IF MovingWindow < days_available THEN MovingWindow ELSE days_available

\* Mutant: the slope taken over the n - 1 intervals between the n days.
GrowthRatePerInterval(first_val, last_val, days_available) ==
    QNorm(Q(last_val - first_val, days_available - 1))

\* fd.growth_rate = (last_val - first_val) / fd.days_available
GrowthRate(first_val, last_val, days_available) ==
    QNorm(Q(last_val - first_val, days_available))

\* Mutant: the clamp left out.
NotClamped(predicted_mb) == predicted_mb

\* if (fd.predicted_mb < 0) fd.predicted_mb = 0;
ClampForecast(predicted_mb) == IF QLt(predicted_mb, QZero) THEN QZero ELSE predicted_mb

\* compute_forecast(db, current_total_mb) on the day `day`.
ComputeForecast(rows, day, current_total_mb) ==
    LET history == GetHistory(rows, day, HistoryDays)
        sorted_days == SortedDays(DailyTotals(history, <<>>))
        n == Len(sorted_days)
        window == WindowOf(n)
        moving_avg == Q(SumFrom(sorted_days, n - window + 1), window)
        growth == GrowthRate(sorted_days[1].total, sorted_days[n].total, n)
    IN  IF n = 0 \/ n = 1
        THEN [current_mb |-> current_total_mb, predicted_mb |-> current_total_mb,
              growth_rate |-> QZero, days_available |-> n]
        ELSE [current_mb |-> current_total_mb,
              predicted_mb |-> ClampForecast(QNorm(QAdd(moving_avg, growth))),
              growth_rate |-> growth, days_available |-> n]

\* Database::insert_forecast: the table after the insert, which may fail.
InsertForecast(table, date, predicted_mb, ok) ==
    IF ok THEN Append(table, [forecast_date |-> date, predicted_mb |-> predicted_mb])
    ELSE table

\* store_forecast(db, data): the forecast is dated tomorrow (now + 86400).
StoreForecast(table, day, data, ok) == InsertForecast(table, day + 1, data.predicted_mb, ok)

----------------------------------------------------------------------------
(* The Reaper on its own: execute_cleanup called on a bounded family of    *)
(* file lists, budgets, retention windows and caps.                        *)

\* Bound: the number of files of a list that are a day old or older.
MaxOld == 3

E1 == <<"PUMP", 1, "E">>

E2 == <<"PUMP", 1, "F">>

\* The clock at the start: noon of day 40.
NowT == 40 * SecondsPerDay + 12 * SecondsPerHour

\* The older files: an entity, an age in hours, a size in MB.
OldKinds ==
    << [entity |-> E1, age |-> 72, size |-> 1], [entity |-> E1, age |-> 72, size |-> 2],
       [entity |-> E1, age |-> 48, size |-> 1], [entity |-> E1, age |-> 48, size |-> 2],
       [entity |-> E1, age |-> 24, size |-> 1], [entity |-> E2, age |-> 72, size |-> 2] >>

\* How many files entity E1 received within the last hour (1 MB each, written
\* a second apart).
RecentCounts == {0, 4, 5}

RecentFiles(k) ==
    [i \in 1..k |-> ScannedFile(100 + i, 1, NowT - SecondsPerHour + i, E1)]

\* The lists of up to MaxOld older files, one per multiset of kinds.  File i
\* was written i \div 2 seconds before its age mark, so that the first file
\* may sit exactly on a retention cutoff and files 2 and 3 of one age tie.
OldLists ==
    LET seqs == UNION {[1..m -> DOMAIN OldKinds] : m \in 0..MaxOld}
        asc  == {s \in seqs : \A i \in DOMAIN s : \A j \in DOMAIN s : i < j => s[i] <= s[j]}
    IN  {[i \in DOMAIN s |->
            ScannedFile(i, OldKinds[s[i]].size,
                        NowT - OldKinds[s[i]].age * SecondsPerHour - (i \div 2),
                        OldKinds[s[i]].entity)] : s \in asc}

InputLists == {o \o RecentFiles(k) : o \in OldLists, k \in RecentCounts}

Amounts == {QInt(0), QInt(2), QInt(1000)}

RetentionChoices == {DefaultRetentionHours, 2 * DefaultRetentionHours}

CapChoices == {-1, 0, 1, DefaultMaxDeletions}

Paths(fs) == {fs[i].full_path : i \in DOMAIN fs}

\* What can go wrong with the filesystem and the store during one run, as a
\* pair (the paths DeleteFileA fails on, the paths whose audit insert fails):
\* nothing, one path of either kind, or every path of one kind.
Failures(P) ==
    {<<{}, {}>>, <<P, {}>>, <<{}, P>>}
        \cup {<<{p}, {}>> : p \in P} \cup {<<{}, {p}>> : p \in P}

NoRun == [called |-> FALSE]

NoEval == [called |-> FALSE]

NoForecast == [called |-> FALSE]

NoCycle == [kind |-> "none"]

\* No second engine.
NoTwin == [engaged |-> FALSE]

\* ScanResult{} and ForecastData{}: the facade's caches before any call.
EmptyScan == [all_files |-> <<>>, total_mb |-> 0, total_files |-> 0, entries |-> <<>>]

ZeroForecast ==
    [current_mb |-> QZero, predicted_mb |-> QZero, growth_rate |-> QZero, days_available |-> 0]

\* The facade before fifo_init and with no cycle run.
\* SchedulerConfig of the static g_scheduler before any start: zero-initialised.
ZeroConfig == [limit_mb |-> 0, hour |-> 0, minute |-> 0, interval_minutes |-> 0]

\* No thread in g_scheduler.thread_.
NoWorker == [pc |-> "none", id |-> 0, i |-> 0, wait_secs |-> 0, rc |-> 0]

\* The threads that call the facade.
Callers == {"A", "B"}

\* A caller outside any call.
IdleCaller ==
    [pc |-> "idle", op |-> "none", rc |-> 0, cfg |-> ZeroConfig, asleep |-> FALSE,
     slices |-> 0]

\* The scheduler as constructed, no call of the facade in progress.
SchedulerIdle ==
    /\ g_scheduler = [running_ |-> FALSE, config_ |-> ZeroConfig,
                      last_run_ |-> [set |-> FALSE]]
    /\ worker = NoWorker
    /\ g_mutex = "free"
    /\ callers = [c \in Callers |-> IdleCaller]
    /\ ncalls = 0
    /\ process = "running"

PipelineIdle ==
    /\ g_db_open = FALSE
    /\ g_last_scan = EmptyScan
    /\ g_last_forecast = ZeroForecast
    /\ last_run = [set |-> FALSE]
    /\ cycle = NoCycle
    /\ ncycles = 0

InitReap ==
    /\ files \in InputLists
    /\ disk = Paths(files)
    /\ deletion_log = <<>>
    /\ run = NoRun
    /\ ev = NoEval
    /\ clock = NowT
    /\ storage_history = <<>>
    /\ storage_forecast = <<>>
    /\ fc = NoForecast
    /\ configuration = <<>>
    /\ twin = NoTwin
    /\ PipelineIdle
    /\ SchedulerIdle

\* The effect of one call of execute_cleanup on the state.
Reap(amount, min_retention_hours, max_deletions, now, sorted, delFail, logFail) ==
    \E r \in {ExecuteCleanup(files, sorted, amount, min_retention_hours, max_deletions,
                              now, disk \ delFail, logFail)} :
        /\ files' = r.files
        /\ disk' = disk \ Paths(r.deleted)
        /\ deletion_log' = deletion_log \o r.logged
        /\ run' = [called |-> TRUE, files0 |-> files, disk0 |-> disk,
                   log0 |-> Len(deletion_log), amount |-> amount,
                   min_retention_hours |-> min_retention_hours,
                   max_deletions |-> max_deletions, now |-> now,
                   files_deleted |-> r.files_deleted, mb_freed |-> r.mb_freed,
                   deleted |-> r.deleted, attempts |-> r.attempts]

\* Old files only can be attempted: the failures are drawn among their paths.
CallExecuteCleanup ==
    /\ run = NoRun
    /\ \E sorted \in SortByCreatedTime(files) :
       \E fail \in Failures(Paths(files) \cap 1..MaxOld) :
       \E amount \in Amounts, hours \in RetentionChoices, cap \in CapChoices :
          /\ Reap(amount, hours, cap, clock, sorted, fail[1], fail[2])
          /\ UNCHANGED <<ev, clock, forecastVars, pipeVars, schedVars>>

NextReap == CallExecuteCleanup

SpecReap == InitReap /\ [][NextReap]_vars

----------------------------------------------------------------------------
(* The Evaluator on its own: evaluate_threshold called on a bounded family *)
(* of forecasts and limits.                                                *)

\* Bound: forecasts run over the halves from 0 to MaxPredicted MB.
MaxPredicted == 25

\* Forecasts around the thresholds of the limits 100 and 1000.
NamedForecasts == {84, 85, 89, 90, 94, 95, 100, 800, 849, 850, 980, 1200}

PredictedChoices ==
    {QNorm(Q(k, 2)) : k \in 0..(2 * MaxPredicted)} \cup {QInt(x) : x \in NamedForecasts}

LimitChoices == {-20, 0, 7, 20, 100, 1000}

InitEval ==
    /\ files = <<>>
    /\ disk = {}
    /\ deletion_log = <<>>
    /\ run = NoRun
    /\ clock = NowT
    /\ storage_history = <<>>
    /\ storage_forecast = <<>>
    /\ fc = NoForecast
    /\ configuration = <<>>
    /\ twin = NoTwin
    /\ PipelineIdle
    /\ SchedulerIdle
    /\ \E p \in PredictedChoices, l \in LimitChoices :
          ev = [called |-> FALSE, predicted_mb |-> p, limit_mb |-> l]

CallEvaluateThreshold ==
    /\ ~ev.called
    /\ LET r == EvaluateThreshold(ev.predicted_mb, ev.limit_mb)
       IN  ev' = [called |-> TRUE, predicted_mb |-> ev.predicted_mb,
                  limit_mb |-> ev.limit_mb, action |-> r.action, amount |-> r.amount]
    /\ UNCHANGED <<reapVars, clock, forecastVars, pipeVars, schedVars>>

NextEval == CallEvaluateThreshold

SpecEval == InitEval /\ [][NextEval]_vars

----------------------------------------------------------------------------
(* The Forecaster on its own: compute_forecast and store_forecast called   *)
(* on a bounded family of histories and scan totals.                       *)

\* Bound: the number of consecutive days, ending today, that have a snapshot.
MaxDays == 8

\* The total of a day's snapshot row, in MB.
DayValues == {0, 40}

SnapshotRow(date, size_mb) == StorageRecord("PUMP", -1, "*", date, size_mb, 1)

\* One snapshot row per day for the m days up to `day`.
DailyHistories(day) ==
    UNION {{[i \in 1..m |-> SnapshotRow(day - m + i, v[i])] : v \in [1..m -> DayValues]} :
             m \in 0..MaxDays}

\* A further row: none, a second row dated today, a row on the first day of
\* the 14-day window, a row one day older than the window.
ExtraRows(day) ==
    {<<>>, <<SnapshotRow(day, 10)>>, <<SnapshotRow(day - HistoryDays, 50)>>,
     <<SnapshotRow(day - HistoryDays - 1, 50)>>}

\* Yesterday's snapshot of 500 MB and today's of 600 MB.
ExampleHistory(day) == <<SnapshotRow(day - 1, 500), SnapshotRow(day, 600)>>

HistoryFamily(day) ==
    {h \o x : h \in DailyHistories(day), x \in ExtraRows(day)} \cup {ExampleHistory(day)}

\* The scan total handed to compute_forecast, in MB.
CurrentChoices == {0, 20, 600}

InitForecast ==
    /\ files = <<>>
    /\ disk = {}
    /\ deletion_log = <<>>
    /\ run = NoRun
    /\ ev = NoEval
    /\ clock = NowT
    /\ storage_history \in HistoryFamily(Today(NowT))
    /\ storage_forecast = <<>>
    /\ \E c \in CurrentChoices : fc = [called |-> FALSE, current_mb |-> QInt(c)]
    /\ configuration = <<>>
    /\ twin = NoTwin
    /\ PipelineIdle
    /\ SchedulerIdle

CallComputeForecast ==
    /\ ~fc.called
    /\ \E fd \in {ComputeForecast(storage_history, Today(clock), fc.current_mb)} :
           fc' = [called |-> TRUE, current_mb |-> fd.current_mb,
                  predicted_mb |-> fd.predicted_mb, growth_rate |-> fd.growth_rate,
                  days_available |-> fd.days_available]
    /\ UNCHANGED <<reapVars, ev, clock, storage_history, storage_forecast, configuration, twin,
                   pipeVars, schedVars>>

CallStoreForecast ==
    /\ fc.called /\ storage_forecast = <<>>
    /\ \E ok \in BOOLEAN :
          storage_forecast' = StoreForecast(storage_forecast, Today(clock), fc, ok)
    /\ UNCHANGED <<reapVars, ev, clock, storage_history, fc, configuration, twin, pipeVars, schedVars>>

NextForecast == CallComputeForecast \/ CallStoreForecast

SpecForecast == InitForecast /\ [][NextForecast]_vars

----------------------------------------------------------------------------
(* The pipeline cycles, fifo_execute_full and Scheduler::execute_once,     *)
(* with fifo_init and fifo_shutdown, over a small archive tree.            *)

FIFO_OK == 0

FIFO_ERR_DB == 0 - 1

FIFO_ERR_NODATA == 0 - 7

\* Bound: the number of pipeline cycles of a behaviour.
MaxCycles == 2

\* Bound: the number of days the clock advances in a behaviour.
MaxTicks == 1

\* The archive tree: seven files of entity (PUMP,1,E) and one of (PUMP,1,F),
\* by path, 20 MB in all.  Files 1..3 and 8 are days old, file 4 is twelve hours
\* old and files 5..7 were written within the last hour; files 1 and 2 have the
\* same time.
CatalogPaths == 1..8

CatalogSize(p) == IF p = 1 THEN 6 ELSE 2

CatalogTime(p) ==
    CASE p \in {1, 2} -> NowT - 72 * SecondsPerHour
      [] p = 3        -> NowT - 48 * SecondsPerHour
      [] p = 4        -> NowT - 12 * SecondsPerHour
      [] p = 8        -> NowT - 96 * SecondsPerHour
      [] OTHER        -> NowT - SecondsPerHour + p

Catalog(p) == ScannedFile(p, CatalogSize(p), CatalogTime(p), IF p = 8 THEN E2 ELSE E1)

\* The files of a set of paths in the order the directory walk meets them.
RECURSIVE FilesInWalkOrder(_)
FilesInWalkOrder(P) ==
    IF P = {} THEN <<>>
    ELSE LET p == CHOOSE x \in P : \A y \in P : x <= y
         IN  <<Catalog(p)>> \o FilesInWalkOrder(P \ {p})

\* AggKey of a file at a granularity.
AggKeyCoarse(f, granularity) ==
    <<f.asset, IF granularity >= 2 THEN f.index_val ELSE 0 - 1,
      IF granularity >= 2 THEN f.category ELSE "*">>

AggKey(f, granularity) ==
    <<f.asset, IF granularity >= 1 THEN f.index_val ELSE 0 - 1,
      IF granularity >= 2 THEN f.category ELSE "*">>

\* The keys of the tree at a granularity, in the order of std::map<AggKey, ...>.
AggKeysInOrder(granularity) ==
    IF granularity >= 2 THEN <<AggKey(Catalog(1), granularity), AggKey(Catalog(8), granularity)>>
    ELSE <<AggKey(Catalog(1), granularity)>>

RECURSIVE SumSizes(_)
SumSizes(fs) == IF fs = <<>> THEN 0 ELSE Head(fs).size_mb + SumSizes(Tail(fs))

\* scan_directory(root, granularity) on the day `day`, the tree holding the
\* paths `present`.
ScanDirectory(present, day, granularity) ==
    LET all_files == FilesInWalkOrder(present)
        under(k) == SelectSeq(all_files, LAMBDA f : AggKey(f, granularity) = k)
        keys == SelectSeq(AggKeysInOrder(granularity), LAMBDA k : under(k) # <<>>)
    IN  [all_files |-> all_files,
         total_mb |-> SumSizes(all_files),
         total_files |-> Len(all_files),
         entries |-> [i \in DOMAIN keys |->
                        [asset |-> keys[i][1], index_val |-> keys[i][2],
                         category |-> keys[i][3], size_mb |-> SumSizes(under(keys[i])),
                         file_count |-> Len(under(keys[i])), date |-> day]]]

\* Mutant: insert_snapshot replacing the row of the same key and date.
StoreScanResultsUpsert(table, result, failAt) ==
    LET SameKey(r, e) == /\ r.asset = e.asset /\ r.index_val = e.index_val
                         /\ r.category = e.category /\ r.date = e.date
        kept == SelectSeq(table, LAMBDA r :
                    \A i \in DOMAIN result.entries : ~SameKey(r, result.entries[i]))
    IN  kept \o [i \in DOMAIN result.entries |->
                    StorageRecord(result.entries[i].asset, result.entries[i].index_val,
                                  result.entries[i].category, result.entries[i].date,
                                  result.entries[i].size_mb, result.entries[i].file_count)]

\* store_scan_results(db, result): one insert_snapshot per entry, stopping at the
\* first insert that fails.  failAt: the position of the failing insert, 0 for none.
StoreScanResults(table, result, failAt) ==
    LET n == Len(result.entries)
        k == IF failAt = 0 \/ failAt > n THEN n ELSE failAt - 1
    IN  table \o [i \in 1..k |->
                    StorageRecord(result.entries[i].asset, result.entries[i].index_val,
                                  result.entries[i].category, result.entries[i].date,
                                  result.entries[i].size_mb, result.entries[i].file_count)]

\* The value store_scan_results returns: 0, or -1 when an insert failed.
StoreScanResultsRc(result, failAt) ==
    IF failAt = 0 \/ failAt > Len(result.entries) THEN 0 ELSE 0 - 1

\* The value store_forecast returns: that of insert_forecast.
StoreForecastRc(ok) == IF ok THEN 0 ELSE 0 - 1

\* Mutant: the Reaper called from CAUTION upwards.
ReaperGateFromCaution(action, amount) == action >= FIFO_ACTION_CAUTION

\* if (action == FIFO_ACTION_CLEANUP && amount > 0)
ReaperGate(action, amount) == action = FIFO_ACTION_CLEANUP /\ QLt(QZero, amount)

\* The result of a cycle that did not call execute_cleanup.
NotReaped(fs) == [files |-> fs, files_deleted |-> 0, mb_freed |-> 0, logged |-> <<>>,
                  deleted |-> <<>>, attempts |-> <<>>]

\* The inputs of a cycle.
FIFO_GRAN_ASSET_IDX_CAT == 2

Granularities == {FIFO_GRAN_ASSET_IDX_CAT}

CycleLimits == {0, 15, 20, 22, 23}

\* What fails in a cycle: nothing, the first insert_snapshot, the
\* insert_forecast, every DeleteFileA, every log_deletion.
Fault(failAt, fcOk, delOk, logOk) ==
    [failAt |-> failAt, fcOk |-> fcOk, delOk |-> delOk, logOk |-> logOk]

CycleFaults ==
    {Fault(0, TRUE, TRUE, TRUE), Fault(1, TRUE, TRUE, TRUE), Fault(0, FALSE, TRUE, TRUE),
     Fault(0, TRUE, FALSE, TRUE), Fault(0, TRUE, TRUE, FALSE)}

\* The positions at which a cycle's snapshot write fails, and the faults of a
\* cycle whose snapshot write fails there.
FailAts == {f.failAt : f \in CycleFaults}

FaultsAt(failAt) == {f \in CycleFaults : f.failAt = failAt}

\* Mutant: the forecast computed before the snapshot is written.
CycleScanForecastFirst(granularity, failAt) ==
    LET scan == ScanDirectory(disk, Today(clock), granularity)
        fd   == ComputeForecast(storage_history, Today(clock), QInt(scan.total_mb))
        hist == StoreScanResults(storage_history, scan, failAt)
    IN  [scan |-> scan, history |-> hist, forecast |-> fd,
         snapshot_rc |-> StoreScanResultsRc(scan, failAt)]

\* Phases 1 and 2 of a cycle: scan, snapshot write, forecast.
CycleScanForecast(granularity, failAt) ==
    LET scan == ScanDirectory(disk, Today(clock), granularity)
        hist == StoreScanResults(storage_history, scan, failAt)
        fd   == ComputeForecast(hist, Today(clock), QInt(scan.total_mb))
    IN  [scan |-> scan, history |-> hist, forecast |-> fd,
         snapshot_rc |-> StoreScanResultsRc(scan, failAt)]

\* Phase 3 of a cycle: the evaluation of the forecast and the Reaper's gate.
CycleThreshold(p, limit_mb) ==
    LET e == EvaluateThreshold(p.forecast.predicted_mb, limit_mb)
    IN  [scan |-> p.scan, history |-> p.history, forecast |-> p.forecast,
         action |-> e.action, amount |-> e.amount,
         reaper_invoked |-> ReaperGate(e.action, e.amount),
         snapshot_rc |-> p.snapshot_rc]

\* Phases 1 to 3 of a cycle: scan, snapshot, forecast and evaluation.
CycleEvaluation(granularity, limit_mb, failAt) ==
    CycleThreshold(CycleScanForecast(granularity, failAt), limit_mb)

\* Mutant: DeleteFileA reporting success for a path that is already gone.
DeletableEvenIfGone(present, delOk) == IF delOk THEN CatalogPaths ELSE {}

\* The paths on which DeleteFileA succeeds: files that exist, unless the
\* deletions of this call fail.
Deletable(present, delOk) == IF delOk THEN present ELSE {}

\* Mutant: the cycle handing the Reaper the list the facade had cached before.
CycleListCached(c) == g_last_scan.all_files

\* The vector a cycle hands to execute_cleanup: all_files of the ScanResult that
\* its own scan_directory call returned (g_last_scan.all_files after line 98,
\* scan.all_files in execute_once).
CycleList(c) == c.scan.all_files

\* Phase 4 of a cycle: behind the gate, the Reaper with its default retention
\* window and cap, for every outcome of the sort and of the failures.
CycleCleanups(c, fault) ==
    IF c.reaper_invoked
    THEN {ExecuteCleanup(CycleList(c), sorted, c.amount, DefaultRetentionHours,
                         DefaultMaxDeletions, clock, Deletable(disk, fault.delOk),
                         IF fault.logOk THEN {} ELSE disk) :
            sorted \in SortByCreatedTime(CycleList(c))}
    ELSE {NotReaped(c.scan.all_files)}

\* What a completed cycle leaves in the store and on the filesystem.
CycleEffects(kind, limit_mb, o, reaped, fcOk) ==
    /\ storage_history' = o.history
    /\ storage_forecast' = StoreForecast(storage_forecast, Today(clock), o.forecast, fcOk)
    /\ disk' = disk \ Paths(reaped.deleted)
    /\ deletion_log' = deletion_log \o reaped.logged
    /\ last_run' = [set |-> TRUE, at |-> clock]
    /\ cycle' = [kind |-> kind, rc |-> FIFO_OK, limit_mb |-> limit_mb,
                 predicted_mb |-> o.forecast.predicted_mb, action |-> o.action,
                 amount |-> o.amount, reaper_invoked |-> o.reaper_invoked,
                 handed |-> IF o.reaper_invoked THEN CycleList(o) ELSE <<>>,
                 files_deleted |-> reaped.files_deleted, mb_freed |-> reaped.mb_freed,
                 disk0 |-> disk, disk1 |-> disk \ Paths(reaped.deleted),
                 log0 |-> deletion_log, log1 |-> deletion_log \o reaped.logged,
                 at |-> clock, total_files |-> o.scan.total_files,
                 history0 |-> storage_history, history1 |-> o.history,
                 forecasts0 |-> storage_forecast,
                 forecasts1 |-> StoreForecast(storage_forecast, Today(clock), o.forecast, fcOk),
                 snapshot_rc |-> o.snapshot_rc, forecast_rc |-> StoreForecastRc(fcOk),
                 forecast |-> o.forecast,
                 last_run0 |-> last_run, last_run1 |-> [set |-> TRUE, at |-> clock],
                 last_run_written |-> TRUE]

\* A cycle that returned an error before its first phase or after the scan.
CycleRefused(kind, rc) ==
    /\ cycle' = [kind |-> kind, rc |-> rc, disk0 |-> disk, disk1 |-> disk,
                 log0 |-> deletion_log, log1 |-> deletion_log, at |-> clock,
                 history0 |-> storage_history, history1 |-> storage_history,
                 forecasts0 |-> storage_forecast, forecasts1 |-> storage_forecast,
                 last_run0 |-> last_run, last_run1 |-> last_run,
                 last_run_written |-> FALSE]
    /\ UNCHANGED <<disk, deletion_log, storage_history, storage_forecast, last_run>>

\* fifo_init(db_path): g_db.open, which may fail.
FifoInit ==
    /\ ~g_db_open
    /\ \E ok \in BOOLEAN : g_db_open' = ok
    /\ UNCHANGED <<reapVars, ev, clock, forecastVars, g_last_scan, g_last_forecast,
                   last_run, cycle, ncycles,
                   schedVars>>

\* fifo_shutdown(): g_db.close().
FifoShutdown ==
    /\ g_db_open
    /\ g_db_open' = FALSE
    /\ UNCHANGED <<reapVars, ev, clock, forecastVars, g_last_scan, g_last_forecast,
                   last_run, cycle, ncycles,
                   schedVars>>

\* fifo_execute_full(root, granularity, limit_mb, target_pct, out)
FifoExecuteFull ==
    /\ ncycles < MaxCycles
    /\ ncycles' = ncycles + 1
    /\ IF ~g_db_open
       THEN /\ CycleRefused("fifo_execute_full", FIFO_ERR_DB)
            /\ UNCHANGED <<g_last_scan, g_last_forecast>>
       ELSE \E granularity \in Granularities, failAt \in FailAts :
               \E p \in {CycleScanForecast(granularity, failAt)} :
                   \E limit_mb \in CycleLimits : \E o \in {CycleThreshold(p, limit_mb)} :
                   \E fault \in FaultsAt(failAt) : \E reaped \in CycleCleanups(o, fault) :
                      /\ CycleEffects("fifo_execute_full", limit_mb, o, reaped, fault.fcOk)
                      /\ g_last_scan' = [o.scan EXCEPT !.all_files = reaped.files]
                      /\ g_last_forecast' = o.forecast
    /\ UNCHANGED <<files, run, ev, fc, configuration, twin, clock, g_db_open,
                   schedVars>>

\* Scheduler::execute_once(db_path, config), on a connection of its own.
ExecuteOnce ==
    /\ ncycles < MaxCycles
    /\ ncycles' = ncycles + 1
    /\ \/ CycleRefused("execute_once", FIFO_ERR_DB)
       \/ /\ disk = {}
          /\ CycleRefused("execute_once", FIFO_ERR_NODATA)
       \/ /\ disk # {}
          /\ \E granularity \in Granularities, failAt \in FailAts :
                \E p \in {CycleScanForecast(granularity, failAt)} :
                    \E limit_mb \in CycleLimits : \E o \in {CycleThreshold(p, limit_mb)} :
                    \E fault \in FaultsAt(failAt) : \E reaped \in CycleCleanups(o, fault) :
                       CycleEffects("execute_once", limit_mb, o, reaped, fault.fcOk)
    /\ UNCHANGED <<files, run, ev, fc, configuration, twin, clock, g_db_open, g_last_scan, g_last_forecast,
                   schedVars>>

\* The inputs of fifo_cleanup.
CleanupLimits == {20}

TargetPcts == {Q(7, 10)}

CleanupFaults == {Fault(0, TRUE, TRUE, TRUE), Fault(0, TRUE, TRUE, FALSE)}

\* double amount = g_last_scan.total_mb - limit_mb * target_pct;
CleanupAmount(limit_mb, target_pct) ==
    QSub(QInt(g_last_scan.total_mb), QMul(QInt(limit_mb), target_pct))

\* What a call of fifo_cleanup leaves behind.
CleanupCall(rc, limit_mb, target_pct, amount, reaped) ==
    /\ disk' = disk \ Paths(reaped.deleted)
    /\ deletion_log' = deletion_log \o reaped.logged
    /\ g_last_scan' = [g_last_scan EXCEPT !.all_files = reaped.files]
    /\ cycle' = [kind |-> "fifo_cleanup", rc |-> rc, limit_mb |-> limit_mb,
                 target_pct |-> target_pct, amount |-> amount, scan0 |-> g_last_scan.all_files,
                 files_deleted |-> reaped.files_deleted, mb_freed |-> reaped.mb_freed,
                 disk0 |-> disk, disk1 |-> disk \ Paths(reaped.deleted),
                 log0 |-> deletion_log, log1 |-> deletion_log \o reaped.logged,
                 at |-> clock]

\* fifo_cleanup(limit_mb, target_pct, out), on the list of the last scan, with
\* target_pct among targets.
FifoCleanupWith(targets) ==
    /\ ncycles < MaxCycles
    /\ ncycles' = ncycles + 1
    /\ IF ~g_db_open
       THEN CleanupCall(FIFO_ERR_DB, 0, QZero, QZero, NotReaped(g_last_scan.all_files))
       ELSE \E limit_mb \in CleanupLimits, target_pct \in targets,
               fault \in CleanupFaults :
               \E amount \in {CleanupAmount(limit_mb, target_pct)} :
                  IF QLe(amount, QZero)
                  THEN CleanupCall(FIFO_OK, limit_mb, target_pct, amount,
                                   NotReaped(g_last_scan.all_files))
                  ELSE \E sorted \in SortByCreatedTime(g_last_scan.all_files) :
                          \E reaped \in {ExecuteCleanup(g_last_scan.all_files, sorted,
                                            amount, DefaultRetentionHours,
                                            DefaultMaxDeletions, clock,
                                            Deletable(disk, fault.delOk),
                                            IF fault.logOk THEN {} ELSE disk)} :
                             CleanupCall(FIFO_OK, limit_mb, target_pct, amount, reaped)
    /\ UNCHANGED <<files, run, ev, clock, forecastVars, g_db_open, g_last_forecast,
                   last_run,
                   schedVars>>

FifoCleanup == FifoCleanupWith(TargetPcts)

\* A day passes.
Tick ==
    /\ clock < NowT + MaxTicks * SecondsPerDay
    /\ clock' = clock + SecondsPerDay
    /\ UNCHANGED <<reapVars, ev, forecastVars, pipeVars, schedVars>>

Init ==
    /\ files = <<>>
    /\ disk \in {CatalogPaths, {}}
    /\ deletion_log = <<>>
    /\ run = NoRun
    /\ ev = NoEval
    /\ clock = NowT
    /\ storage_history = <<>>
    /\ storage_forecast = <<>>
    /\ fc = NoForecast
    /\ configuration = <<>>
    /\ twin = NoTwin
    /\ PipelineIdle
    /\ SchedulerIdle

Next == FifoInit \/ FifoShutdown \/ FifoExecuteFull \/ ExecuteOnce \/ FifoCleanup \/ Tick

Spec == Init /\ [][Next]_vars

----------------------------------------------------------------------------
(* The scheduler: the worker thread in Scheduler::run_loop, and the        *)
(* threads that call fifo_schedule_start, fifo_schedule_start_interval,    *)
(* fifo_schedule_stop and fifo_get_status.  A step is what a thread does   *)
(* between two reads or writes of what it shares with the others.          *)

FIFO_ERR_BUSY == 0 - 6

SecondsPerMinute == 60

\* The number of facade calls the caller threads make in all.
MaxCalls == 3

\* The number of slices of one wait that are followed one by one.
MaxSlices == 1

\* fifo_schedule_start(root, 2, 20, 0.7, 12, 0): cfg.interval_minutes = 0.
DailyConfig == [limit_mb |-> 20, hour |-> 12, minute |-> 0, interval_minutes |-> 0]

\* fifo_schedule_start_interval(root, 2, 23, 0.7, 1): cfg.hour = cfg.minute = 0.
IntervalConfig == [limit_mb |-> 23, hour |-> 0, minute |-> 0, interval_minutes |-> 1]

ScheduleConfigs == {DailyConfig, IntervalConfig}

StartOp(cfg) ==
    IF cfg.interval_minutes > 0 THEN "fifo_schedule_start_interval"
    ELSE "fifo_schedule_start"

\* Mutant: is_running() answering false whatever the flag.
IsRunningNever == FALSE

\* bool is_running() const { return running_.load(); }
IsRunning == g_scheduler.running_

\* thread_.joinable(): thread_ holds a thread that was not joined.
Joinable == worker.pc # "none"

\* The instant of hour:minute:00 on the day of `now`: mktime of the local time
\* of `now` with tm_hour, tm_min and tm_sec replaced.
TargetOn(config, now) ==
    Today(now) * SecondsPerDay + config.hour * SecondsPerHour
        + config.minute * SecondsPerMinute

\* Mutant: the interval taken as a number of seconds.
WaitSecsIntervalInSeconds(config, now) ==
    IF config.interval_minutes > 0
    THEN config.interval_minutes
    ELSE IF TargetOn(config, now) <= now
         THEN TargetOn(config, now) + SecondsPerDay - now
         ELSE TargetOn(config, now) - now

\* Mutant: a target that is now or past is not moved to the next day.
WaitSecsSameDay(config, now) ==
    IF config.interval_minutes > 0
    THEN config.interval_minutes * SecondsPerMinute
    ELSE TargetOn(config, now) - now

\* wait_secs of run_loop: the interval, or the seconds to the next hour:minute.
WaitSecs(config, now) ==
    IF config.interval_minutes > 0
    THEN config.interval_minutes * SecondsPerMinute
    ELSE LET target_t == Today(now) * SecondsPerDay + config.hour * SecondsPerHour
                           + config.minute * SecondsPerMinute
         IN  IF target_t <= now THEN target_t + SecondsPerDay - now ELSE target_t - now

\* Mutant: run_loop leaving the loop when execute_once returns an error.
AfterCycleStopOnError(rc) == IF rc = FIFO_OK THEN "record" ELSE "exited"

\* run_loop after execute_once(db_path_, config_): the return value is dropped.
AfterCycle(rc) == "record"

\* Mutant: join() returning while the thread is still running.
JoinReturnsEarly == TRUE

\* thread_.join() returns once the thread has left run_loop.
JoinReturns == worker.pc = "exited"

\* The caller c returns rc from its call and is outside any call again.
Return(c, rc) == callers' = [callers EXCEPT ![c] = [IdleCaller EXCEPT !.rc = rc]]

\* The caller c moves on inside its call.
Goto(c, pc) == callers' = [callers EXCEPT ![c].pc = pc]

\* The slices the worker slept since a stop() in progress stored the flag.
SlicesSlept(k) ==
    [c \in Callers |->
        IF callers[c].pc \in {"stop_test", "join"}
        THEN [callers[c] EXCEPT !.slices = IF @ + k > 2 THEN 2 ELSE @ + k]
        ELSE callers[c]]

\* fifo_schedule_start / fifo_schedule_start_interval is called, with its
\* arguments among configs.
FifoScheduleStartWith(c, configs) ==
    /\ process = "running"
    /\ callers[c].pc = "idle"
    /\ ncalls < MaxCalls
    /\ ncalls' = ncalls + 1
    /\ \E cfg \in configs :
          callers' = [callers EXCEPT ![c] =
              [pc |-> "is_running", op |-> StartOp(cfg), rc |-> FIFO_OK, cfg |-> cfg,
               asleep |-> FALSE, slices |-> 0]]
    /\ UNCHANGED <<reapVars, ev, clock, forecastVars, pipeVars, g_scheduler, worker,
                   g_mutex, process>>

FifoScheduleStart(c) == FifoScheduleStartWith(c, ScheduleConfigs)

\* if (g_scheduler.is_running()) return FIFO_ERR_BUSY;
FifoScheduleStartTest(c) ==
    /\ process = "running"
    /\ callers[c].pc = "is_running"
    /\ IF IsRunning
       THEN callers' = [callers EXCEPT ![c].pc = "idle", ![c].rc = FIFO_ERR_BUSY]
       ELSE Goto(c, "start")
    /\ UNCHANGED <<reapVars, ev, clock, forecastVars, pipeVars, g_scheduler, worker,
                   g_mutex, ncalls, process>>

\* Scheduler::start: if (running_.load()) return;
SchedulerStart(c) ==
    /\ process = "running"
    /\ callers[c].pc = "start"
    /\ IF g_scheduler.running_ THEN Return(c, FIFO_OK) ELSE Goto(c, "assign")
    /\ UNCHANGED <<reapVars, ev, clock, forecastVars, pipeVars, g_scheduler, worker,
                   g_mutex, process, ncalls>>

\* Scheduler::start: config_ = config; db_path_ = db_path; running_.store(true);
SchedulerAssign(c) ==
    /\ process = "running"
    /\ callers[c].pc = "assign"
    /\ g_scheduler' = [g_scheduler EXCEPT !.config_ = callers[c].cfg, !.running_ = TRUE]
    /\ Goto(c, "spawn")
    /\ UNCHANGED <<reapVars, ev, clock, forecastVars, pipeVars, worker, g_mutex, process, ncalls>>

\* Scheduler::start: thread_ = std::thread(&Scheduler::run_loop, this);
\* the assignment to a thread_ that is joinable calls std::terminate.
SchedulerSpawn(c) ==
    /\ process = "running"
    /\ callers[c].pc = "spawn"
    /\ IF Joinable
       THEN /\ process' = "terminated"
            /\ UNCHANGED <<worker, callers>>
       ELSE /\ worker' = [pc |-> "loop", id |-> worker.id + 1, i |-> 0, wait_secs |-> 0,
                          rc |-> 0]
            /\ Return(c, FIFO_OK)
            /\ UNCHANGED process
    /\ UNCHANGED <<reapVars, ev, clock, forecastVars, pipeVars, g_scheduler, g_mutex, ncalls>>

\* fifo_schedule_stop, Scheduler::stop: running_.store(false);
SchedulerStop(c) ==
    /\ process = "running"
    /\ callers[c].pc = "idle"
    /\ ncalls < MaxCalls
    /\ ncalls' = ncalls + 1
    /\ g_scheduler' = [g_scheduler EXCEPT !.running_ = FALSE]
    /\ callers' = [callers EXCEPT ![c] =
          [pc |-> "stop_test", op |-> "fifo_schedule_stop", rc |-> FIFO_OK,
           cfg |-> ZeroConfig,
           asleep |-> g_scheduler.running_ /\ worker.pc \in {"sleep", "slice"},
           slices |-> 0]]
    /\ UNCHANGED <<reapVars, ev, clock, forecastVars, pipeVars, worker, g_mutex, process>>

\* Scheduler::stop: if (thread_.joinable())
SchedulerStopTest(c) ==
    /\ process = "running"
    /\ callers[c].pc = "stop_test"
    /\ IF Joinable THEN Goto(c, "join") ELSE Return(c, FIFO_OK)
    /\ UNCHANGED <<reapVars, ev, clock, forecastVars, pipeVars, g_scheduler, worker,
                   g_mutex, process, ncalls>>

\* Scheduler::stop: thread_.join().  On a thread_ that another caller joined
\* in between the behaviour is undefined: the call returns or the process ends.
SchedulerJoin(c) ==
    /\ process = "running"
    /\ callers[c].pc = "join"
    /\ \/ /\ Joinable
          /\ JoinReturns
          /\ worker' = [NoWorker EXCEPT !.id = worker.id]
          /\ Return(c, FIFO_OK)
          /\ UNCHANGED process
       \/ /\ ~Joinable
          /\ \/ Return(c, FIFO_OK) /\ UNCHANGED process
             \/ process' = "terminated" /\ UNCHANGED callers
          /\ UNCHANGED worker
    /\ UNCHANGED <<reapVars, ev, clock, forecastVars, pipeVars, g_scheduler, g_mutex, ncalls>>

\* fifo_get_status(out): std::lock_guard<std::mutex> lock(g_mutex);
FacadeLock(c) ==
    /\ process = "running"
    /\ callers[c].pc = "idle"
    /\ ncalls < MaxCalls
    /\ ncalls' = ncalls + 1
    /\ g_mutex = "free"
    /\ g_mutex' = c
    /\ callers' = [callers EXCEPT ![c] =
          [pc |-> "locked", op |-> "fifo_get_status", rc |-> FIFO_OK,
           cfg |-> ZeroConfig, asleep |-> FALSE, slices |-> 0]]
    /\ UNCHANGED <<reapVars, ev, clock, forecastVars, pipeVars, g_scheduler, worker,
                   process>>

\* fifo_get_status(out) under the lock: it reads is_running(), the caches and
\* the key "last_run" through g_db, and unlocks on return.
FifoGetStatus(c) ==
    /\ process = "running"
    /\ callers[c].pc = "locked"
    /\ g_mutex' = "free"
    /\ Return(c, FIFO_OK)
    /\ UNCHANGED <<reapVars, ev, clock, forecastVars, pipeVars, g_scheduler, worker,
                   ncalls, process>>

\* run_loop: while (running_.load()), and the computation of wait_secs.
RunLoopTest ==
    /\ process = "running"
    /\ worker.pc = "loop"
    /\ worker' = IF g_scheduler.running_
                 THEN [worker EXCEPT !.pc = "sleep", !.i = 0,
                                     !.wait_secs = WaitSecs(g_scheduler.config_, clock)]
                 ELSE [worker EXCEPT !.pc = "exited"]
    /\ UNCHANGED <<reapVars, ev, clock, forecastVars, pipeVars, g_scheduler, g_mutex,
                   callers, process, ncalls>>

\* run_loop: for (...; i < wait_secs && running_.load(); ...)
SleepTest ==
    /\ process = "running"
    /\ worker.pc = "sleep"
    /\ worker' = IF worker.i < worker.wait_secs /\ g_scheduler.running_
                 THEN [worker EXCEPT !.pc = "slice"]
                 ELSE [worker EXCEPT !.pc = "check", !.i = 0, !.wait_secs = 0]
    /\ UNCHANGED <<reapVars, ev, clock, forecastVars, pipeVars, g_scheduler, g_mutex,
                   callers, process, ncalls>>

\* run_loop: sleep_for(seconds(1)) returns; ++i.
SliceDone ==
    /\ process = "running"
    /\ worker.pc = "slice"
    /\ worker.i < MaxSlices \/ ~g_scheduler.running_
    /\ worker' = [worker EXCEPT !.pc = "sleep", !.i = @ + 1]
    /\ clock' = clock + 1
    /\ callers' = SlicesSlept(1)
    /\ UNCHANGED <<reapVars, ev, forecastVars, pipeVars, g_scheduler, g_mutex, process, ncalls>>

\* run_loop: the remaining slices of the wait, one after the other with the
\* flag set at each test and no step of another thread in between.
SleepThrough ==
    /\ process = "running"
    /\ worker.pc = "slice"
    /\ g_scheduler.running_
    /\ worker' = [worker EXCEPT !.pc = "sleep", !.i = worker.wait_secs]
    /\ clock' = clock + (worker.wait_secs - worker.i)
    /\ callers' = SlicesSlept(worker.wait_secs - worker.i)
    /\ UNCHANGED <<reapVars, ev, forecastVars, pipeVars, g_scheduler, g_mutex, process, ncalls>>

\* run_loop: if (!running_.load()) break;
RunLoopCheck ==
    /\ process = "running"
    /\ worker.pc = "check"
    /\ worker' = [worker EXCEPT !.pc = IF g_scheduler.running_ THEN "open" ELSE "exited"]
    /\ UNCHANGED <<reapVars, ev, clock, forecastVars, pipeVars, g_scheduler, g_mutex,
                   callers, process, ncalls>>

\* execute_once(db_path_, config_): Database db; db.open(db_path), which may fail.
ExecuteOnceOpen ==
    /\ process = "running"
    /\ worker.pc = "open"
    /\ ncycles < MaxCycles
    /\ ncycles' = ncycles + 1
    /\ \/ /\ CycleRefused("execute_once", FIFO_ERR_DB)
          /\ worker' = [worker EXCEPT !.pc = AfterCycle(FIFO_ERR_DB), !.rc = FIFO_ERR_DB]
       \/ /\ worker' = [worker EXCEPT !.pc = "cycle"]
          /\ UNCHANGED <<disk, deletion_log, storage_history, storage_forecast, last_run,
                         cycle>>
    /\ UNCHANGED <<files, run, ev, fc, configuration, twin, clock, g_db_open, g_last_scan, g_last_forecast,
                   g_scheduler, g_mutex, callers, process, ncalls>>

\* execute_once from the scan to db.close(), on its own connection and with
\* config_ as run_loop passes it.
ExecuteOnceCycle ==
    /\ process = "running"
    /\ worker.pc = "cycle"
    /\ IF disk = {}
       THEN /\ CycleRefused("execute_once", FIFO_ERR_NODATA)
            /\ worker' = [worker EXCEPT !.pc = AfterCycle(FIFO_ERR_NODATA),
                                        !.rc = FIFO_ERR_NODATA]
       ELSE \E o \in {CycleEvaluation(FIFO_GRAN_ASSET_IDX_CAT,
                                      g_scheduler.config_.limit_mb, 0)} :
               \E reaped \in CycleCleanups(o, Fault(0, TRUE, TRUE, TRUE)) :
                  /\ CycleEffects("execute_once", g_scheduler.config_.limit_mb, o,
                                  reaped, TRUE)
                  /\ worker' = [worker EXCEPT !.pc = AfterCycle(FIFO_OK), !.rc = FIFO_OK]
    /\ UNCHANGED <<files, run, ev, fc, configuration, twin, clock, g_db_open, g_last_scan, g_last_forecast,
                   ncycles, g_scheduler, g_mutex, callers, process, ncalls>>

\* run_loop: last_run_ = ts;
RunLoopRecord ==
    /\ process = "running"
    /\ worker.pc = "record"
    /\ g_scheduler' = [g_scheduler EXCEPT !.last_run_ = [set |-> TRUE, at |-> clock]]
    /\ worker' = [worker EXCEPT !.pc = "loop"]
    /\ UNCHANGED <<reapVars, ev, clock, forecastVars, pipeVars, g_mutex, callers, process, ncalls>>

\* The steps of the worker thread in run_loop, outside execute_once.
LoopStep ==
    \/ RunLoopTest \/ SleepTest \/ SliceDone \/ SleepThrough \/ RunLoopCheck
    \/ RunLoopRecord

\* The steps of the worker thread.
WorkerStep == LoopStep \/ ExecuteOnceOpen \/ ExecuteOnceCycle

\* The steps of the caller thread c.
CallerSteps(c) ==
    \/ FifoScheduleStart(c) \/ FifoScheduleStartTest(c) \/ SchedulerStart(c)
    \/ SchedulerAssign(c) \/ SchedulerSpawn(c) \/ SchedulerStop(c)
    \/ SchedulerStopTest(c) \/ SchedulerJoin(c) \/ FacadeLock(c) \/ FifoGetStatus(c)

\* The steps of the caller threads.
CallerStep == \E c \in Callers : CallerSteps(c)

\* After fifo_init succeeded, on the catalog tree or on an empty one.
InitSched ==
    /\ files = <<>>
    /\ disk \in {CatalogPaths, {}}
    /\ deletion_log = <<>>
    /\ run = NoRun
    /\ ev = NoEval
    /\ clock = NowT
    /\ storage_history = <<>>
    /\ storage_forecast = <<>>
    /\ fc = NoForecast
    /\ configuration = <<>>
    /\ twin = NoTwin
    /\ g_db_open = TRUE
    /\ g_last_scan = EmptyScan
    /\ g_last_forecast = ZeroForecast
    /\ last_run = [set |-> FALSE]
    /\ cycle = NoCycle
    /\ ncycles = 0
    /\ SchedulerIdle

NextSched == WorkerStep \/ CallerStep

SpecSched == InitSched /\ [][NextSched]_vars

\* The worker with one thread calling the facade.
NextWorker == WorkerStep \/ CallerSteps("A")

\* The worker thread is scheduled and its sleeps end: it does not stay for
\* ever at a step of run_loop that it can take.
SpecWorkerFair == InitSched /\ [][NextWorker]_vars /\ WF_vars(LoopStep)

----------------------------------------------------------------------------
(* The worker's waits: one thread starts and stops the scheduler, in daily *)
(* and in interval mode, at several times of the day.                      *)

\* The string Scheduler::next_run returns while the scheduler is stopped.
NoInstant == [set |-> FALSE]

\* snprintf("%04d-%02d-%02d %02d:%02d") of the local time of t: the day, the
\* hour and the minute, without the seconds.
FormatMinute(t) ==
    [set |-> TRUE, date |-> Today(t),
     hour |-> (t % SecondsPerDay) \div SecondsPerHour,
     minute |-> (t % SecondsPerHour) \div SecondsPerMinute]

\* Scheduler::next_run(), called at the instant now.
NextRun(scheduler, now) ==
    IF ~scheduler.running_ THEN NoInstant
    ELSE IF scheduler.config_.interval_minutes > 0
         THEN FormatMinute(now + scheduler.config_.interval_minutes * SecondsPerMinute)
         ELSE IF TargetOn(scheduler.config_, now) <= now
              THEN FormatMinute(TargetOn(scheduler.config_, now) + SecondsPerDay)
              ELSE FormatMinute(TargetOn(scheduler.config_, now))

\* fifo_schedule_start(root, 2, 20, 0.7, 0, 0): every day at midnight.
MidnightConfig == [limit_mb |-> 20, hour |-> 0, minute |-> 0, interval_minutes |-> 0]

TimingConfigs == {DailyConfig, MidnightConfig, IntervalConfig}

\* The instants at which the behaviours begin: a second before noon, and noon.
StartInstants == {NowT - 1, NowT}

\* The seconds a cycle takes when it takes time.
CycleSeconds == SecondsPerMinute + 1

\* Time passes while execute_once runs: run_loop reads the clock for last_run_
\* after the cycle.
CycleTakes ==
    /\ process = "running"
    /\ worker.pc = "record"
    /\ clock = cycle.at
    /\ clock' = clock + CycleSeconds
    /\ UNCHANGED <<reapVars, ev, forecastVars, pipeVars, schedVars>>

\* The steps of the thread c that starts and stops the scheduler.
TimingCaller(c) ==
    \/ FifoScheduleStartWith(c, TimingConfigs) \/ FifoScheduleStartTest(c)
    \/ SchedulerStart(c) \/ SchedulerAssign(c) \/ SchedulerSpawn(c)
    \/ SchedulerStop(c) \/ SchedulerStopTest(c) \/ SchedulerJoin(c)

\* After fifo_init succeeded on the catalog tree, at one of the instants.
InitTiming ==
    /\ files = <<>>
    /\ disk = CatalogPaths
    /\ deletion_log = <<>>
    /\ run = NoRun
    /\ ev = NoEval
    /\ clock \in StartInstants
    /\ storage_history = <<>>
    /\ storage_forecast = <<>>
    /\ fc = NoForecast
    /\ configuration = <<>>
    /\ twin = NoTwin
    /\ g_db_open = TRUE
    /\ g_last_scan = EmptyScan
    /\ g_last_forecast = ZeroForecast
    /\ last_run = [set |-> FALSE]
    /\ cycle = NoCycle
    /\ ncycles = 0
    /\ SchedulerIdle

NextTiming == WorkerStep \/ CycleTakes \/ TimingCaller("A")

SpecTiming == InitTiming /\ [][NextTiming]_vars

----------------------------------------------------------------------------
(* The facade called one operation at a time: fifo_scan, fifo_forecast and *)
(* fifo_cleanup, with fifo_init and fifo_shutdown.                         *)

\* Bound: the number of facade operations of a behaviour.
MaxOps == 3

FIFO_GRAN_ASSET == 0

FIFO_GRAN_ASSET_INDEX == 1

ScanGranularities == {FIFO_GRAN_ASSET, FIFO_GRAN_ASSET_INDEX, FIFO_GRAN_ASSET_IDX_CAT}

\* The insert_snapshot of a scan that fails: none, the first, the second.
ScanFailAts == {0, 1, 2}

\* The trees of the behaviours: the whole archive, four of its files (8 MB,
\* the oldest one met last by the walk), no file at all.
FacadeTrees == {CatalogPaths, {2, 3, 4, 8}, {}}

\* What a call of fifo_scan or fifo_forecast leaves behind.
FacadeCall(kind, rc, open, scan1, history1, forecast1, forecasts1, write_rc) ==
    /\ g_last_scan' = scan1
    /\ storage_history' = history1
    /\ g_last_forecast' = forecast1
    /\ storage_forecast' = forecasts1
    /\ cycle' = [kind |-> kind, rc |-> rc, open |-> open, write_rc |-> write_rc,
                 scan0 |-> g_last_scan, scan1 |-> scan1,
                 forecast0 |-> g_last_forecast, forecast1 |-> forecast1,
                 history0 |-> storage_history, history1 |-> history1,
                 forecasts0 |-> storage_forecast, forecasts1 |-> forecasts1,
                 disk0 |-> disk, disk1 |-> disk,
                 log0 |-> deletion_log, log1 |-> deletion_log, at |-> clock]

\* A call that returned at its is_open() test.
FacadeRefused(kind) ==
    FacadeCall(kind, FIFO_ERR_DB, FALSE, g_last_scan, storage_history,
               g_last_forecast, storage_forecast, 0)

\* Mutant: fifo_scan writing the snapshot of a scan that found no file.
ScanIsEmptyNever(scan) == FALSE

\* if (g_last_scan.total_files == 0) return FIFO_ERR_NODATA;
ScanIsEmpty(scan) == scan.total_files = 0

\* fifo_scan(root_path, granularity)
FifoScan ==
    /\ ncycles < MaxOps
    /\ ncycles' = ncycles + 1
    /\ IF ~g_db_open
       THEN FacadeRefused("fifo_scan")
       ELSE \E granularity \in ScanGranularities, failAt \in ScanFailAts :
               \E scan \in {ScanDirectory(disk, Today(clock), granularity)} :
                  IF ScanIsEmpty(scan)
                  THEN FacadeCall("fifo_scan", FIFO_ERR_NODATA, TRUE, scan,
                                  storage_history, g_last_forecast, storage_forecast, 0)
                  ELSE FacadeCall("fifo_scan", StoreScanResultsRc(scan, failAt), TRUE, scan,
                                  StoreScanResults(storage_history, scan, failAt),
                                  g_last_forecast, storage_forecast,
                                  StoreScanResultsRc(scan, failAt))
    /\ UNCHANGED <<reapVars, ev, fc, configuration, twin, clock, g_db_open, last_run, schedVars>>

\* fifo_forecast(out)
FifoForecast ==
    /\ ncycles < MaxOps
    /\ ncycles' = ncycles + 1
    /\ IF ~g_db_open
       THEN FacadeRefused("fifo_forecast")
       ELSE \E ok \in BOOLEAN :
               \E fd \in {ComputeForecast(storage_history, Today(clock),
                                          QInt(g_last_scan.total_mb))} :
                  FacadeCall("fifo_forecast", FIFO_OK, TRUE, g_last_scan, storage_history,
                             fd, StoreForecast(storage_forecast, Today(clock), fd, ok),
                             StoreForecastRc(ok))
    /\ UNCHANGED <<reapVars, ev, fc, configuration, twin, clock, g_db_open, last_run, schedVars>>

InitFacade ==
    /\ disk \in FacadeTrees
    /\ files = <<>>
    /\ deletion_log = <<>>
    /\ run = NoRun
    /\ ev = NoEval
    /\ clock = NowT
    /\ storage_history = <<>>
    /\ storage_forecast = <<>>
    /\ fc = NoForecast
    /\ configuration = <<>>
    /\ twin = NoTwin
    /\ PipelineIdle
    /\ SchedulerIdle

NextFacade == FifoInit \/ FifoShutdown \/ FifoScan \/ FifoForecast \/ FifoCleanup

SpecFacade == InitFacade /\ [][NextFacade]_vars

----------------------------------------------------------------------------
(* execute_cleanup called directly, and fifo_cleanup, on the list of one   *)
(* scan: the facade after fifo_init and a fifo_scan of the tree.           *)

InitCleanup ==
    /\ disk \in FacadeTrees
    /\ files = FilesInWalkOrder(disk)
    /\ deletion_log = <<>>
    /\ run = NoRun
    /\ ev = NoEval
    /\ clock = NowT
    /\ \E scan \in {ScanDirectory(disk, Today(NowT), FIFO_GRAN_ASSET_IDX_CAT)} :
          /\ g_last_scan = scan
          /\ storage_history = IF ScanIsEmpty(scan) THEN <<>>
                               ELSE StoreScanResults(<<>>, scan, 0)
    /\ storage_forecast = <<>>
    /\ fc = NoForecast
    /\ configuration = <<>>
    /\ twin = NoTwin
    /\ g_db_open = TRUE
    /\ g_last_forecast = ZeroForecast
    /\ last_run = [set |-> FALSE]
    /\ cycle = NoCycle
    /\ ncycles = 0
    /\ SchedulerIdle

\* The amounts of a direct call, a negative one included.
AnyAmounts == Amounts \cup {QInt(0 - 1)}

\* execute_cleanup called on the cached list with any amount.
CallExecuteCleanupAny ==
    /\ run = NoRun
    /\ \E sorted \in SortByCreatedTime(files) :
       \E fail \in Failures(Paths(files) \cap 1..MaxOld) :
       \E amount \in AnyAmounts, hours \in RetentionChoices, cap \in CapChoices :
          /\ Reap(amount, hours, cap, clock, sorted, fail[1], fail[2])
          /\ UNCHANGED <<ev, clock, forecastVars, pipeVars, schedVars>>

NextCleanup == CallExecuteCleanupAny \/ FifoCleanup

SpecCleanup == InitCleanup /\ [][NextCleanup]_vars

----------------------------------------------------------------------------
(* The configuration table through fifo_set_config and fifo_get_config.    *)

\* The keys and values the callers use (the key "last_run" is the cycles').
ConfigKeys == {"root_path", "limit_mb"}

ConfigValues == {"10", "20"}

\* Mutant: a plain INSERT into a table without the primary key.
SetConfigInsert(table, key, value, ok) ==
    IF ok THEN Append(table, [key |-> key, value |-> value]) ELSE table

\* Database::set_config(key, value): INSERT OR REPLACE on the primary key `key`
\* deletes the row of that key and inserts the new one.  ok: the statement is
\* prepared and sqlite3_step returns SQLITE_DONE.
SetConfig(table, key, value, ok) ==
    IF ok THEN Append(SelectSeq(table, LAMBDA r : r.key # key),
                      [key |-> key, value |-> value])
    ELSE table

\* The value Database::set_config returns.
SetConfigRc(ok) == IF ok THEN 0 ELSE 0 - 1

\* Database::get_config(key, default_val): the value of the first row the
\* SELECT returns, default_val when it returns none or cannot be prepared.
GetConfig(table, key, default_val, ok) ==
    LET rows == SelectSeq(table, LAMBDA r : r.key = key)
    IN  IF ok /\ rows # <<>> THEN rows[1].value ELSE default_val

\* What a call of fifo_set_config or fifo_get_config leaves behind.
ConfigCall(kind, rc, open, key, value, ok, table1) ==
    /\ configuration' = table1
    /\ cycle' = [kind |-> kind, rc |-> rc, open |-> open, key |-> key, value |-> value,
                 ok |-> ok, table0 |-> configuration, table1 |-> table1]

\* fifo_set_config(key, value)
FifoSetConfig ==
    /\ \E key \in ConfigKeys, value \in ConfigValues :
          IF ~g_db_open
          THEN ConfigCall("fifo_set_config", FIFO_ERR_DB, FALSE, key, value, FALSE,
                          configuration)
          ELSE \E ok \in BOOLEAN :
                  ConfigCall("fifo_set_config", SetConfigRc(ok), TRUE, key, value, ok,
                             SetConfig(configuration, key, value, ok))
    /\ UNCHANGED <<reapVars, ev, clock, storage_history, storage_forecast, fc, twin, g_db_open,
                   g_last_scan, g_last_forecast, last_run, ncycles, schedVars>>

\* fifo_get_config(key, value_buf, buf_size), the buffer large enough for the
\* value; value: what value_buf holds on return ("" if the call left it alone).
FifoGetConfig ==
    /\ \E key \in ConfigKeys :
          IF ~g_db_open
          THEN ConfigCall("fifo_get_config", FIFO_ERR_DB, FALSE, key, "", FALSE,
                          configuration)
          ELSE \E ok \in BOOLEAN :
                  ConfigCall("fifo_get_config", FIFO_OK, TRUE, key,
                             GetConfig(configuration, key, "", ok), ok, configuration)
    /\ UNCHANGED <<reapVars, ev, clock, storage_history, storage_forecast, fc, twin, g_db_open,
                   g_last_scan, g_last_forecast, last_run, ncycles, schedVars>>

InitConfig ==
    /\ files = <<>>
    /\ disk = {}
    /\ deletion_log = <<>>
    /\ run = NoRun
    /\ ev = NoEval
    /\ clock = NowT
    /\ storage_history = <<>>
    /\ storage_forecast = <<>>
    /\ fc = NoForecast
    /\ configuration = <<>>
    /\ twin = NoTwin
    /\ PipelineIdle
    /\ SchedulerIdle

NextConfig == FifoInit \/ FifoShutdown \/ FifoSetConfig \/ FifoGetConfig

SpecConfig == InitConfig /\ [][NextConfig]_vars

----------------------------------------------------------------------------
(* The Scanner, scan_directory, walking a tree of directory entries.  A    *)
(* name is a sequence of characters; a tree is the set of its leaves: the  *)
(* files and the empty directories, each with its path below the root.     *)

\* Bound: the number of leaves of a tree.
MaxEntries == 3

\* The characters of the names, in the order of their codes.
Alphabet ==
    << "0", "1", "2", "3", "4", "5", "6", "7", "8", "9",
       "E", "F", "G", "P", "Q", "a", "b", "c", "d", "e", "f", "g", "h", "i", "j", "k",
       "m", "r", "s", "x" >>

CharCode(c) == CHOOSE i \in DOMAIN Alphabet : Alphabet[i] = c

Digits == {Alphabet[i] : i \in 1..10}

\* is_number(s): !s.empty() && std::all_of(s.begin(), s.end(), ::isdigit)
IsNumber(s) == s # <<>> /\ \A i \in DOMAIN s : s[i] \in Digits

\* std::string operator<
RECURSIVE StringLess(_, _)
StringLess(a, b) ==
    IF b = <<>> THEN FALSE
    ELSE IF a = <<>> THEN TRUE
    ELSE IF a[1] # b[1] THEN CharCode(a[1]) < CharCode(b[1])
    ELSE StringLess(Tail(a), Tail(b))

\* INT_MAX, digit by digit.
IntMaxDigits == <<2, 1, 4, 7, 4, 8, 3, 6, 4, 7>>

RECURSIVE StripZeros(_)
StripZeros(s) == IF s # <<>> /\ s[1] = "0" THEN StripZeros(Tail(s)) ELSE s

\* std::stoi(name) on a digit string throws std::out_of_range when the number
\* is greater than INT_MAX.
StoIOutOfRange(s) ==
    LET t == StripZeros(s)
    IN  \/ Len(t) > Len(IntMaxDigits)
        \/ /\ Len(t) = Len(IntMaxDigits)
           /\ \E i \in DOMAIN t :
                 /\ CharCode(t[i]) - 1 > IntMaxDigits[i]
                 /\ \A j \in 1..(i - 1) : CharCode(t[j]) - 1 = IntMaxDigits[j]

\* std::stoi(name) on a digit string within range.
RECURSIVE StoI(_)
StoI(s) == IF s = <<>> THEN 0 ELSE 10 * StoI(SubSeq(s, 1, Len(s) - 1)) + (CharCode(s[Len(s)]) - 1)

\* A leaf of a tree: its path below the root, whether it is a directory, and
\* for a file its size in MB and its write time as filetime_to_time_t gives it.
Leaf(path, is_dir, size, time) ==
    [path |-> path, is_dir |-> is_dir, size |-> size, time |-> time]

IsBelow(e, dir) == Len(e.path) > Len(dir) /\ SubSeq(e.path, 1, Len(dir)) = dir

\* The DirEntry that list_dir returns for the name n in dir.
DirEntry(tree, dir, n) ==
    LET under == {e \in tree : IsBelow(e, dir) /\ e.path[Len(dir) + 1] = n}
        leaf  == CHOOSE e \in under : TRUE
    IN  IF \E e \in under : Len(e.path) > Len(dir) + 1
        THEN [name |-> n, is_dir |-> TRUE, size |-> 0, time |-> 0]
        ELSE [name |-> n, is_dir |-> leaf.is_dir, size |-> leaf.size, time |-> leaf.time]

\* The names in the order FindFirstFileA/FindNextFileA return them: by name,
\* ascending or descending (the order depends on the file system).
RECURSIVE InNameOrder(_, _)
InNameOrder(N, asc) ==
    IF N = {} THEN <<>>
    ELSE LET n == CHOOSE x \in N : \A y \in N \ {x} :
                     IF asc THEN StringLess(x, y) ELSE StringLess(y, x)
         IN  <<n>> \o InNameOrder(N \ {n}, asc)

\* list_dir(dir)
ListDir(tree, dir, asc) ==
    LET names == InNameOrder({e.path[Len(dir) + 1] : e \in {x \in tree : IsBelow(x, dir)}},
                             asc)
    IN  [i \in DOMAIN names |-> DirEntry(tree, dir, names[i])]

\* Mutant: the year accepted at any number of digits.
AcceptsAnyYear(level, e) ==
    CASE level = 1 -> e.is_dir
      [] level = 2 -> e.is_dir /\ IsNumber(e.name)
      [] level = 3 -> e.is_dir /\ e.name \in {<<"E">>, <<"F">>}
      [] level = 4 -> e.is_dir /\ IsNumber(e.name)
      [] level \in {5, 6} -> e.is_dir /\ IsNumber(e.name) /\ Len(e.name) = 2
      [] OTHER -> ~e.is_dir

\* The tests of the seven nested loops: asset, index, category, year, month,
\* day, file.
Accepts(level, e) ==
    CASE level = 1 -> e.is_dir
      [] level = 2 -> e.is_dir /\ IsNumber(e.name)
      [] level = 3 -> e.is_dir /\ e.name \in {<<"E">>, <<"F">>}
      [] level = 4 -> e.is_dir /\ IsNumber(e.name) /\ Len(e.name) = 4
      [] level \in {5, 6} -> e.is_dir /\ IsNumber(e.name) /\ Len(e.name) = 2
      [] OTHER -> ~e.is_dir

\* What the walk yields in place of files when std::stoi throws.
Thrown == [thrown |-> TRUE]

\* The ScannedFile of the file e in the day folder dir.
WalkedFile(dir, e) ==
    [full_path |-> dir \o <<e.name>>, size_mb |-> e.size, created_time |-> e.time,
     asset |-> dir[1], index_val |-> StoI(dir[2]), category |-> dir[3][1],
     date |-> dir[4] \o <<"-">> \o dir[5] \o <<"-">> \o dir[6]]

\* The nested loops from the entries of dir, a directory at depth level - 1,
\* onward: the files pushed to all_files, in order.
RECURSIVE Walk(_, _, _, _)
Walk(tree, asc, dir, level) ==
    LET entries == ListDir(tree, dir, asc)
        from[i \in 1..(Len(entries) + 1)] ==
            IF i > Len(entries) THEN <<>>
            ELSE IF ~Accepts(level, entries[i]) THEN from[i + 1]
            ELSE IF level = 7 THEN <<WalkedFile(dir, entries[i])>> \o from[i + 1]
            ELSE IF level = 2 /\ StoIOutOfRange(entries[i].name) THEN <<Thrown>>
            ELSE Walk(tree, asc, dir \o <<entries[i].name>>, level + 1) \o from[i + 1]
    IN  from[1]

\* AggKey::operator<
KeyLess(a, b) ==
    IF a[1] # b[1] THEN StringLess(a[1], b[1])
    ELSE IF a[2] # b[2] THEN a[2] < b[2]
    ELSE a[3] # b[3] /\ (a[3] = "*" \/ (b[3] # "*" /\ CharCode(a[3]) < CharCode(b[3])))

RECURSIVE InKeyOrder(_)
InKeyOrder(K) ==
    IF K = {} THEN <<>>
    ELSE LET k == CHOOSE x \in K : \A y \in K \ {x} : KeyLess(x, y)
         IN  <<k>> \o InKeyOrder(K \ {k})

\* scan_directory(root_path, granularity) on the day `day`: the ScanResult, or
\* the exception that leaves the function.
ScanDirectoryOf(tree, asc, day, granularity) ==
    LET walked == Walk(tree, asc, <<>>, 1)
        under(k) == SelectSeq(walked, LAMBDA f : AggKey(f, granularity) = k)
        keys == InKeyOrder({AggKey(walked[i], granularity) : i \in DOMAIN walked})
    IN  IF \E i \in DOMAIN walked : walked[i] = Thrown
        THEN Thrown
        ELSE [thrown |-> FALSE, all_files |-> walked,
              total_mb |-> SumSizes(walked), total_files |-> Len(walked),
              entries |-> [i \in DOMAIN keys |->
                             [asset |-> keys[i][1], index_val |-> keys[i][2],
                              category |-> keys[i][3],
                              size_mb |-> SumSizes(under(keys[i])),
                              file_count |-> Len(under(keys[i])), date |-> day]]]

\* Names of the trees.
Year2024 == <<"2", "0", "2", "4">>

DayFolder(asset, index, category, day) == <<asset, index, category, Year2024, <<"0", "1">>, day>>

\* The leaves the trees are made of: five files the schema admits, under two
\* assets, three indexes ("02" among them) and both categories, and leaves it
\* does not admit: a directory in a day folder, a file below it, a category G,
\* a category e, an index x1, years, months and days of other shapes, files
\* above the day folder, and an index that does not fit an int.
LeafCatalog ==
    LET P == <<"P">>
        one == <<"1">>
        E == <<"E">>
        d05 == <<"0", "5">>
    IN  { Leaf(DayFolder(P, one, E, d05) \o << <<"a">> >>, FALSE, 2, 100),
          Leaf(DayFolder(P, one, E, d05) \o << <<"b">> >>, FALSE, 3, 200),
          Leaf(DayFolder(P, one, <<"F">>, <<"0", "6">>) \o << <<"c">> >>, FALSE, 1, 300),
          Leaf(DayFolder(P, <<"0", "2">>, E, d05) \o << <<"d">> >>, FALSE, 4, 400),
          Leaf(DayFolder(<<"Q">>, one, E, d05) \o << <<"e">> >>, FALSE, 2, 500),
          Leaf(DayFolder(P, one, E, d05) \o << <<"s">> >>, TRUE, 0, 0),
          Leaf(DayFolder(P, one, E, d05) \o << <<"s">>, <<"k">> >>, FALSE, 1, 600),
          Leaf(DayFolder(P, one, <<"G">>, d05) \o << <<"f">> >>, FALSE, 1, 700),
          Leaf(DayFolder(P, one, <<"e">>, d05) \o << <<"g">> >>, FALSE, 1, 800),
          Leaf(DayFolder(P, <<"x", "1">>, E, d05) \o << <<"h">> >>, FALSE, 1, 900),
          Leaf(<<P, one, E, <<"2", "4">>, <<"0", "1">>, d05, <<"i">> >>, FALSE, 1, 1000),
          Leaf(<<P, one, E, Year2024, <<"1">>, d05, <<"j">> >>, FALSE, 1, 1100),
          Leaf(DayFolder(P, one, E, <<"5", "a">>) \o << <<"k">> >>, FALSE, 1, 1200),
          Leaf(<< <<"r">> >>, FALSE, 1, 1300),
          Leaf(<<P, one, E, Year2024, <<"0", "1">>, <<"m">> >>, FALSE, 1, 1400),
          Leaf(<<P, one, <<"F">> >>, TRUE, 0, 0),
          Leaf(DayFolder(P, <<"9", "9", "9", "9", "9", "9", "9", "9", "9", "9", "9">>, E, d05)
                  \o << <<"a">> >>, FALSE, 1, 1500) }

\* No leaf of a tree lies below another leaf.
IsTree(T) == \A e \in T : \A f \in T : ~IsBelow(f, e.path) \/ e.is_dir

Trees == {T \in SUBSET LeafCatalog : Cardinality(T) <= MaxEntries /\ IsTree(T)}

\* The granularity arguments of a direct call.
WalkGranularities == ScanGranularities \cup {3}

InitScan ==
    /\ disk \in Trees
    /\ files = <<>>
    /\ deletion_log = <<>>
    /\ run = NoRun
    /\ ev = NoEval
    /\ clock = NowT
    /\ storage_history = <<>>
    /\ storage_forecast = <<>>
    /\ fc = NoForecast
    /\ configuration = <<>>
    /\ twin = NoTwin
    /\ PipelineIdle
    /\ SchedulerIdle

\* scan_directory(root_path, granularity) called on the tree.
CallScanDirectory ==
    /\ cycle = NoCycle
    /\ \E granularity \in WalkGranularities, asc \in BOOLEAN :
          cycle' = [kind |-> "scan_directory", granularity |-> granularity, asc |-> asc,
                    result |-> ScanDirectoryOf(disk, asc, Today(clock), granularity)]
    /\ UNCHANGED <<reapVars, ev, clock, forecastVars, g_db_open, g_last_scan,
                   g_last_forecast, last_run, ncycles, schedVars>>

NextScan == CallScanDirectory

SpecScan == InitScan /\ [][NextScan]_vars

----------------------------------------------------------------------------
(* Two engines started on copies of one store and given the same calls on  *)
(* the same trees: fifo_scan, the first engine at any granularity and the  *)
(* second always per asset, and fifo_forecast.  The store is open and its  *)
(* writes succeed.                                                         *)

\* The histories the two stores start with: empty, a day-old snapshot.
TwinHistories == {<<>>, <<SnapshotRow(Today(NowT) - 1, 10)>>}

\* storage_history after fifo_scan: nothing is written for an empty scan.
HistoryAfterScan(history, scan) ==
    IF ScanIsEmpty(scan) THEN history ELSE StoreScanResults(history, scan, 0)

\* fifo_scan(root_path, granularity) on both engines.
TwinScan ==
    /\ ncycles < MaxOps
    /\ ncycles' = ncycles + 1
    /\ \E granularity \in ScanGranularities :
          \E scan \in {ScanDirectory(disk, Today(clock), granularity)} :
             /\ FacadeCall("fifo_scan",
                           IF ScanIsEmpty(scan) THEN FIFO_ERR_NODATA ELSE FIFO_OK, TRUE, scan,
                           HistoryAfterScan(storage_history, scan),
                           g_last_forecast, storage_forecast, 0)
             /\ \E scan2 \in {ScanDirectory(disk, Today(clock), FIFO_GRAN_ASSET)} :
                   twin' = [twin EXCEPT !.g_last_scan = scan2,
                                        !.storage_history = HistoryAfterScan(@, scan2)]
    /\ UNCHANGED <<reapVars, ev, fc, configuration, clock, g_db_open, last_run, schedVars>>

\* fifo_forecast(out) on both engines.
TwinForecast ==
    /\ ncycles < MaxOps
    /\ ncycles' = ncycles + 1
    /\ \E fd \in {ComputeForecast(storage_history, Today(clock), QInt(g_last_scan.total_mb))} :
          FacadeCall("fifo_forecast", FIFO_OK, TRUE, g_last_scan, storage_history, fd,
                     StoreForecast(storage_forecast, Today(clock), fd, TRUE), 0)
    /\ \E fd2 \in {ComputeForecast(twin.storage_history, Today(clock),
                                   QInt(twin.g_last_scan.total_mb))} :
          twin' = [twin EXCEPT !.g_last_forecast = fd2,
                               !.storage_forecast =
                                   StoreForecast(@, Today(clock), fd2, TRUE)]
    /\ UNCHANGED <<reapVars, ev, fc, configuration, clock, g_db_open, last_run, schedVars>>

\* Files are written to the tree or removed from it between two calls.
TreeChanges ==
    /\ \E tree \in FacadeTrees \ {disk} : disk' = tree
    /\ UNCHANGED <<files, deletion_log, run, ev, clock, forecastVars, pipeVars, schedVars>>

InitTwin ==
    /\ disk \in FacadeTrees
    /\ files = <<>>
    /\ deletion_log = <<>>
    /\ run = NoRun
    /\ ev = NoEval
    /\ clock = NowT
    /\ storage_history \in TwinHistories
    /\ storage_forecast = <<>>
    /\ fc = NoForecast
    /\ configuration = <<>>
    /\ twin = [engaged |-> TRUE, g_last_scan |-> EmptyScan,
               storage_history |-> storage_history, g_last_forecast |-> ZeroForecast,
               storage_forecast |-> <<>>]
    /\ g_db_open = TRUE
    /\ g_last_scan = EmptyScan
    /\ g_last_forecast = ZeroForecast
    /\ last_run = [set |-> FALSE]
    /\ cycle = NoCycle
    /\ ncycles = 0
    /\ SchedulerIdle

NextTwin == TwinScan \/ TwinForecast \/ TreeChanges \/ Tick

SpecTwin == InitTwin /\ [][NextTwin]_vars

----------------------------------------------------------------------------
(* The target_pct argument.  A cycle is run from the facade after          *)
(* fifo_init and fifo_scan with any target_pct, and the same cycle is run   *)
(* with the target of 70 % from the same store and tree, the sort and the  *)
(* filesystem behaving alike; fifo_cleanup is called with several targets. *)

\* The target_pct arguments: 50 %, 70 %, 90 %.
CallTargets == {Q(1, 2), Q(7, 10), Q(9, 10)}

\* Mutant: the cycle reclaiming down to limit_mb * target_pct.
FullCycleToTarget(granularity, limit_mb, target_pct) ==
    LET c == CycleEvaluation(granularity, limit_mb, 0)
        to_delete == QSub(c.forecast.predicted_mb, QMul(QInt(limit_mb), target_pct))
        amount == IF c.action # FIFO_ACTION_CLEANUP THEN c.amount
                  ELSE IF QLt(to_delete, QZero) THEN QZero ELSE QNorm(to_delete)
    IN  [c EXCEPT !.amount = amount, !.reaper_invoked = ReaperGate(c.action, amount)]

\* Phases 1 to 3 of fifo_execute_full(root, granularity, limit_mb, target_pct,
\* out) and of execute_once(db_path, config): neither reads target_pct.
FullCycle(granularity, limit_mb, target_pct) == CycleEvaluation(granularity, limit_mb, 0)

\* Phase 4 of the other run: the sort leaves the list in the order it left it
\* in the first run.
CleanupsAlike(o, reaped, o2, fault) ==
    IF o.reaper_invoked /\ o2.reaper_invoked
    THEN {r \in CycleCleanups(o2, fault) : r.files = reaped.files}
    ELSE CycleCleanups(o2, fault)

\* What the other run did.
OtherRun(rc, target_pct, other, o2, reaped2) ==
    [engaged |-> TRUE, target_pct |-> target_pct, other |-> other, rc |-> rc,
     action |-> o2.action, amount |-> o2.amount, removed |-> Paths(reaped2.deleted),
     files_deleted |-> reaped2.files_deleted, mb_freed |-> reaped2.mb_freed,
     logged |-> reaped2.logged, history |-> o2.history, forecast |-> o2.forecast]

OtherRunRefused(rc) == [engaged |-> TRUE, rc |-> rc]

\* The faults of a cycle whose store writes succeed.
TargetFaults == {Fault(0, TRUE, TRUE, TRUE), Fault(0, TRUE, FALSE, TRUE)}

\* The two runs of a cycle of one kind.
TargetCycle(kind) ==
    \E granularity \in Granularities, limit_mb \in CycleLimits, fault \in TargetFaults :
    \E target_pct \in CallTargets, other \in TargetPcts :
    \E o \in {FullCycle(granularity, limit_mb, target_pct)} :
    \E o2 \in {FullCycle(granularity, limit_mb, other)} :
    \E reaped \in CycleCleanups(o, fault) : \E reaped2 \in CleanupsAlike(o, reaped, o2, fault) :
       /\ CycleEffects(kind, limit_mb, o, reaped, fault.fcOk)
       /\ twin' = OtherRun(FIFO_OK, target_pct, other, o2, reaped2)
       /\ IF kind = "fifo_execute_full"
          THEN /\ g_last_scan' = [o.scan EXCEPT !.all_files = reaped.files]
               /\ g_last_forecast' = o.forecast
          ELSE UNCHANGED <<g_last_scan, g_last_forecast>>

\* fifo_execute_full(root, granularity, limit_mb, target_pct, out), twice.
TargetExecuteFull ==
    /\ ncycles < MaxCycles
    /\ ncycles' = ncycles + 1
    /\ TargetCycle("fifo_execute_full")
    /\ UNCHANGED <<files, run, ev, fc, configuration, clock, g_db_open, schedVars>>

\* Scheduler::execute_once(db_path, config) with config.target_pct, twice.
TargetExecuteOnce ==
    /\ ncycles < MaxCycles
    /\ ncycles' = ncycles + 1
    /\ IF disk = {}
       THEN /\ CycleRefused("execute_once", FIFO_ERR_NODATA)
            /\ twin' = OtherRunRefused(FIFO_ERR_NODATA)
            /\ UNCHANGED <<g_last_scan, g_last_forecast>>
       ELSE TargetCycle("execute_once")
    /\ UNCHANGED <<files, run, ev, fc, configuration, clock, g_db_open, schedVars>>

\* fifo_cleanup(limit_mb, target_pct, out) with any of the targets.
TargetCleanup == FifoCleanupWith(CallTargets)

InitTarget ==
    /\ disk \in FacadeTrees
    /\ files = <<>>
    /\ deletion_log = <<>>
    /\ run = NoRun
    /\ ev = NoEval
    /\ clock = NowT
    /\ \E scan \in {ScanDirectory(disk, Today(NowT), FIFO_GRAN_ASSET_IDX_CAT)} :
          /\ g_last_scan = scan
          /\ storage_history = HistoryAfterScan(<<>>, scan)
    /\ storage_forecast = <<>>
    /\ fc = NoForecast
    /\ configuration = <<>>
    /\ twin = NoTwin
    /\ g_db_open = TRUE
    /\ g_last_forecast = ZeroForecast
    /\ last_run = [set |-> FALSE]
    /\ cycle = NoCycle
    /\ ncycles = 0
    /\ SchedulerIdle

NextTarget == TargetExecuteFull \/ TargetExecuteOnce \/ TargetCleanup

SpecTarget == InitTarget /\ [][NextTarget]_vars

----------------------------------------------------------------------------
(* What one run of execute_cleanup did, read off the state.                *)

\* The files of the list that the run removed from the filesystem.
RemovedByRun == {f \in Range(run.files0) : f.full_path \in run.disk0 \ disk}

\* The audit rows the run added, in insertion order.
RowsOfRun == SubSeq(deletion_log, run.log0 + 1, Len(deletion_log))

EntitiesAtStart == {EntityKey(f) : f \in Range(run.files0)}

StartCount(e) == Cardinality({i \in DOMAIN run.files0 : EntityKey(run.files0[i]) = e})

RemovedOf(e) == {f \in RemovedByRun : EntityKey(f) = e}

RECURSIVE SumSize(_)
SumSize(S) == IF S = {} THEN 0 ELSE LET f == CHOOSE x \in S : TRUE IN f.size_mb + SumSize(S \ {f})

LargestSize(S) == IF S = {} THEN 0 ELSE CHOOSE m \in {f.size_mb : f \in S} : \A f \in S : f.size_mb <= m

\* The file of the list that a path names.
FileAt(p) == CHOOSE f \in Range(run.files0) : f.full_path = p

\* An older file that is still on disk after a run that stopped neither on its
\* budget nor on its cap.
LeftBehind(f) ==
    /\ f \in Range(run.files0) /\ f.full_path \in disk
    /\ QLt(QInt(run.mb_freed), run.amount)
    /\ run.files_deleted < run.max_deletions

----------------------------------------------------------------------------
\* C1  Survivor floor within one reap: of an entity that has at least 5 files in
\* the list at the start of a run, at least 5 of those files are not deleted by
\* the run; an entity that starts with 5 or fewer files loses none.
C1_SurvivorFloor ==
    run.called =>
        \A e \in EntitiesAtStart :
            /\ StartCount(e) >= 5 => StartCount(e) - Cardinality(RemovedOf(e)) >= 5
            /\ StartCount(e) <= 5 => RemovedOf(e) = {}

\* C1 witness: an entity of 6 files lost 1 and an eligible file of it stayed,
\* though neither budget nor cap was reached; another entity lost nothing.
C1_Witness ==
    /\ run.called
    /\ StartCount(E1) = 6 /\ Cardinality(RemovedOf(E1)) = 1
    /\ \E f \in Range(run.files0) :
          /\ EntityKey(f) = E1 /\ LeftBehind(f)
          /\ f.created_time <= run.now - run.min_retention_hours * 3600
    /\ StartCount(E2) = 1 /\ RemovedOf(E2) = {}

\* C2  Retention floor: no file with created_time > now - min_retention_hours*3600
\* is removed from the filesystem or written to the deletion log by the run, so
\* the run deletes at most as many files as are not newer than that.
C2_RetentionFloor ==
    run.called =>
        LET newer == {f \in Range(run.files0) :
                        f.created_time > run.now - run.min_retention_hours * 3600}
        IN  /\ RemovedByRun \cap newer = {}
            /\ \A i \in DOMAIN RowsOfRun : RowsOfRun[i].file_path \notin {f.full_path : f \in newer}
            /\ run.files_deleted <= Cardinality(Range(run.files0) \ newer)

\* C2 witness: a run that deleted a file and passed over a file just inside the
\* retention window, with budget, cap and survivor counter all allowing more.
C2_Witness ==
    /\ run.called /\ run.files_deleted >= 1
    /\ \E f \in Range(run.files0) :
          /\ LeftBehind(f)
          /\ f.created_time > run.now - run.min_retention_hours * 3600
          /\ f.created_time <= run.now - 24 * 3600
          /\ StartCount(EntityKey(f)) - Cardinality(RemovedOf(EntityKey(f))) > 5

\* C4  Audit fidelity (the claim as stated): the run adds one audit row, with
\* reason "PREDICTIVE_CLEANUP", for each file it removed and none for any other
\* file, and the number of rows is the number of deletions it counted -- also
\* when an insert into deletion_log fails.
C4_AuditFidelity ==
    run.called =>
        /\ Len(RowsOfRun) = run.files_deleted
        /\ \A i \in DOMAIN RowsOfRun : RowsOfRun[i].reason = "PREDICTIVE_CLEANUP"
        /\ \A f \in Range(run.files0) :
              Cardinality({i \in DOMAIN RowsOfRun : RowsOfRun[i].file_path = f.full_path})
                  = IF f \in RemovedByRun THEN 1 ELSE 0

\* C5  Budget bound: the sizes of the files a run removed sum to at most
\* amount_to_delete_mb plus the size of the largest file, and DeleteFileA is
\* never called once the freed total has reached amount_to_delete_mb.
C5_BudgetBound ==
    run.called =>
        /\ run.mb_freed = SumSize(RemovedByRun)
        /\ QLe(QInt(SumSize(RemovedByRun)),
               QAdd(run.amount, QInt(LargestSize(Range(run.files0)))))
        /\ \A i \in DOMAIN run.attempts : QLt(QInt(run.attempts[i].freed), run.amount)

\* C5 witness: a run that overshot its budget by less than one file and then
\* left an eligible file alone that cap and survivor floor would have allowed.
C5_Witness ==
    /\ run.called
    /\ QLt(run.amount, QInt(SumSize(RemovedByRun)))
    /\ \E f \in Range(run.files0) :
          /\ f.full_path \in disk
          /\ f.created_time <= run.now - run.min_retention_hours * 3600
          /\ StartCount(EntityKey(f)) - Cardinality(RemovedOf(EntityKey(f))) > 5
          /\ run.files_deleted < run.max_deletions

\* C6  Hard cap: a run with max_deletions >= 0 reports and removes at most
\* max_deletions files; a run with max_deletions <= 0 removes and logs nothing.
C6_HardCap ==
    run.called =>
        /\ run.max_deletions >= 0 =>
              /\ run.files_deleted <= run.max_deletions
              /\ Cardinality(RemovedByRun) <= run.max_deletions
        /\ run.max_deletions <= 0 =>
              /\ run.files_deleted = 0 /\ RemovedByRun = {} /\ RowsOfRun = <<>>

\* C6 witness: a run stopped by a cap of 1 with a further eligible file that
\* budget and survivor floor would have allowed.
C6_Witness ==
    /\ run.called
    /\ run.max_deletions = 1 /\ run.files_deleted = 1
    /\ \E f \in Range(run.files0) :
          /\ f.full_path \in disk
          /\ f.created_time <= run.now - run.min_retention_hours * 3600
          /\ StartCount(EntityKey(f)) - Cardinality(RemovedOf(EntityKey(f))) > 5
          /\ QLt(QInt(run.mb_freed), run.amount)

\* C7  Oldest-first: within one run the attempts, the removals and the audit
\* rows each come in non-decreasing created_time, so of two deleted files the
\* older one was deleted and logged first.
C7_OldestFirst ==
    run.called =>
        /\ \A i \in DOMAIN run.attempts : \A j \in DOMAIN run.attempts :
              i < j => run.attempts[i].file.created_time <= run.attempts[j].file.created_time
        /\ \A i \in DOMAIN run.deleted : \A j \in DOMAIN run.deleted :
              i < j => run.deleted[i].created_time <= run.deleted[j].created_time
        /\ \A i \in DOMAIN RowsOfRun : \A j \in DOMAIN RowsOfRun :
              i < j => FileAt(RowsOfRun[i].file_path).created_time
                          <= FileAt(RowsOfRun[j].file_path).created_time
        /\ {f.full_path : f \in Range(run.deleted)} = run.disk0 \ disk

\* C7 witness: two files deleted and logged in the order opposite to the one
\* they had in the list handed to the run.
C7_Witness ==
    /\ run.called /\ Len(RowsOfRun) >= 2
    /\ \E i \in DOMAIN run.files0 : \E j \in DOMAIN run.files0 :
          /\ i < j /\ run.files0[i].created_time > run.files0[j].created_time
          /\ RowsOfRun[1].file_path = run.files0[j].full_path
          /\ RowsOfRun[2].file_path = run.files0[i].full_path

\* C8  Evaluator ladder: with p = 100 * predicted_mb / limit_mb, the result is
\* SAFE, 0 if limit_mb <= 0 or p < 85; MONITOR, 0 if 85 <= p < 90; CAUTION, 0
\* if 90 <= p < 95; CLEANUP, max(0, predicted_mb - 0.70 * limit_mb) if p >= 95;
\* limit 1000 with forecast 980 gives CLEANUP, 280.
C8_EvaluatorLadder ==
    ev.called =>
        LET pn == ev.predicted_mb.n
            pd == ev.predicted_mb.d
            l  == ev.limit_mb
            \* p < t, for l > 0, with the division cleared
            below(t) == 100 * pn < t * l * pd
            \* 10 * pd * (predicted_mb - 0.70 * limit_mb)
            over == 10 * pn - 7 * l * pd
            amountIs(x10pd) == ev.amount.n * 10 * pd = x10pd * ev.amount.d
        IN  /\ (l <= 0 \/ below(85)) => ev.action = 0 /\ ev.amount.n = 0
            /\ (l > 0 /\ ~below(85) /\ below(90)) => ev.action = 1 /\ ev.amount.n = 0
            /\ (l > 0 /\ ~below(90) /\ below(95)) => ev.action = 2 /\ ev.amount.n = 0
            /\ (l > 0 /\ ~below(95)) =>
                  ev.action = 3 /\ amountIs(IF over > 0 THEN over ELSE 0)
            /\ ev.action \in {0, 1, 2, 3}
            /\ (l = 1000 /\ pn = 980 /\ pd = 1) => ev.action = 3 /\ ev.amount = QInt(280)

\* C8 witness: a forecast exactly on the 95 % threshold of its limit was
\* evaluated to CLEANUP, with the amount down to 70 % of the limit.
C8_Witness ==
    /\ ev.called /\ ev.limit_mb = 20 /\ ev.predicted_mb = QInt(19)
    /\ ev.action = FIFO_ACTION_CLEANUP /\ ev.amount = QInt(5)

----------------------------------------------------------------------------
(* The pipeline cycles.                                                    *)

CycleRan == cycle.kind \in {"fifo_execute_full", "execute_once"}

CycleCompleted == CycleRan /\ cycle.rc = FIFO_OK

\* The files a Reaper run on the tree `present` at time t could remove: not
\* newer than the default retention window, of an entity of more than 5 files.
Removable(present, t) ==
    {p \in present :
        /\ Catalog(p).created_time <= t - 24 * 3600
        /\ Cardinality({q \in present : EntityKey(Catalog(q)) = EntityKey(Catalog(p))}) > 5}

\* C3  Destruction gate: in a cycle of fifo_execute_full or
\* Scheduler::execute_once the Reaper is invoked, and a file removed or a
\* deletion_log row added, only if the cycle's action is CLEANUP (limit_mb > 0 and
\* 100 * predicted_mb / limit_mb >= 95) with a positive amount; a cycle whose
\* action is SAFE, MONITOR or CAUTION, or that returned an error, removes no
\* file and adds no row.
C3_DestructionGate ==
    CycleRan =>
        LET touched == cycle.disk1 # cycle.disk0 \/ cycle.log1 # cycle.log0
        IN  /\ ~CycleCompleted => ~touched
            /\ CycleCompleted =>
                  /\ touched => cycle.reaper_invoked
                  /\ cycle.reaper_invoked =>
                        /\ cycle.action = FIFO_ACTION_CLEANUP
                        /\ cycle.limit_mb > 0
                        /\ 100 * cycle.predicted_mb.n >= 95 * cycle.limit_mb * cycle.predicted_mb.d
                        /\ cycle.amount.n > 0
                  /\ cycle.action \in {FIFO_ACTION_SAFE, FIFO_ACTION_MONITOR, FIFO_ACTION_CAUTION}
                        => ~cycle.reaper_invoked /\ ~touched

\* C3 witness: after a cycle that reaped, a cycle of execute_once evaluated
\* CAUTION on a tree holding a removable file and left tree and log as they were.
C3_Witness ==
    /\ CycleCompleted /\ cycle.kind = "execute_once"
    /\ cycle.action = FIFO_ACTION_CAUTION
    /\ Removable(cycle.disk0, clock) # {}
    /\ cycle.disk1 = cycle.disk0 /\ cycle.log1 = cycle.log0
    /\ cycle.log0 # <<>>

\* The cycle got as far as its scan and the scan found no file.
CycleOnEmptyTree == CycleRan /\ cycle.rc # FIFO_ERR_DB /\ cycle.disk0 = {}

\* C11  Empty tree: a cycle of execute_full (or of execute_once) whose scan
\* finds no file returns ERR_NODATA and adds no snapshot row, no forecast row
\* and no deletion-log row.
C11_EmptyTree ==
    CycleOnEmptyTree =>
        /\ cycle.rc = FIFO_ERR_NODATA
        /\ cycle.history1 = cycle.history0
        /\ cycle.forecasts1 = cycle.forecasts0
        /\ cycle.log1 = cycle.log0

\* The rows a cycle added to a table: what the table holds beyond its old length.
RowsAdded(before, after) == SubSeq(after, Len(before) + 1, Len(after))

\* The dates of the rows of a history table that a forecast of the day `day` reads.
DatesRead(table, day) ==
    {table[i].date : i \in {j \in DOMAIN table : table[j].date >= day - 14}}

CycleStepFailed ==
    \/ ~CycleCompleted
    \/ cycle.total_files = 0
    \/ cycle.snapshot_rc # 0
    \/ cycle.forecast_rc # 0

\* C17  A step error aborts the cycle: a cycle in which a step failed removes
\* no file, adds no deletion-log row and does not write last_run; last_run is
\* written if and only if no step of the cycle failed.
C17_StepErrorAborts ==
    CycleRan =>
        /\ CycleStepFailed =>
              /\ cycle.disk1 = cycle.disk0
              /\ cycle.log1 = cycle.log0
              /\ ~cycle.last_run_written
        /\ cycle.last_run_written <=> ~CycleStepFailed

----------------------------------------------------------------------------
(* What compute_forecast read, stated over the table as a set of rows.     *)

WindowRows == {i \in DOMAIN storage_history : storage_history[i].date >= Today(clock) - 14}

WindowDates == {storage_history[i].date : i \in WindowRows}

RECURSIVE SumRows(_)
SumRows(I) ==
    IF I = {} THEN 0
    ELSE LET i == CHOOSE x \in I : TRUE IN storage_history[i].size_mb + SumRows(I \ {i})

TotalOn(d) == SumRows({i \in WindowRows : storage_history[i].date = d})

\* The k latest dates of the window.
LatestDates(k) == {d \in WindowDates : Cardinality({e \in WindowDates : e > d}) < k}

FirstTotal == TotalOn(CHOOSE d \in WindowDates : \A e \in WindowDates : d <= e)

LastTotal == TotalOn(CHOOSE d \in WindowDates : \A e \in WindowDates : d >= e)

\* k * n * (mean of the last k daily totals + (last - first) / n)
Extrapolated(k, n) ==
    SumRows({i \in WindowRows : storage_history[i].date \in LatestDates(k)}) * n
        + (LastTotal - FirstTotal) * k

\* C9  Forecast formula: with n the number of distinct dates in the 14-day
\* window, days_available = n; if n <= 1, predicted_mb = current_mb and
\* growth_rate = 0; otherwise growth_rate = (last - first) / n and predicted_mb =
\* max(0, mean of the last min(7, n) daily totals + growth_rate); daily totals
\* of 500 then 600 give 2 days, growth 50 and a forecast of 600.
C9_ForecastFormula ==
    fc.called =>
        LET n == Cardinality(WindowDates)
            k == IF n < 7 THEN n ELSE 7
            x == Extrapolated(k, n)
        IN  /\ fc.days_available = n
            /\ n <= 1 => QEq(fc.predicted_mb, fc.current_mb) /\ fc.growth_rate.n = 0
            /\ n >= 2 =>
                  /\ fc.growth_rate.n * n = (LastTotal - FirstTotal) * fc.growth_rate.d
                  /\ fc.predicted_mb.n * k * n = (IF x > 0 THEN x ELSE 0) * fc.predicted_mb.d
            /\ (n = 2 /\ FirstTotal = 500 /\ LastTotal = 600) =>
                  fc.growth_rate = QInt(50) /\ fc.predicted_mb = QInt(600)

\* C9 witness: a forecast over 8 days, more than the window of 7, of which the
\* last has two rows, with a rising trend and a forecast above the scan total.
C9_Witness ==
    /\ fc.called /\ fc.days_available = 8
    /\ Cardinality({i \in WindowRows : storage_history[i].date = Today(clock)}) = 2
    /\ fc.growth_rate.n > 0
    /\ QLt(fc.current_mb, fc.predicted_mb)

\* C10  Forecast clamp: the predicted_mb returned by compute_forecast and the
\* predicted_mb of every row of storage_forecast are >= 0.
C10_ForecastClamp ==
    /\ fc.called => fc.predicted_mb.n >= 0 /\ fc.predicted_mb.d > 0
    /\ \A i \in DOMAIN storage_forecast :
          storage_forecast[i].predicted_mb.n >= 0 /\ storage_forecast[i].predicted_mb.d > 0

\* C10 witness: a steeply falling history whose extrapolation is negative was
\* forecast, and the forecast was stored as 0.
C10_Witness ==
    /\ fc.called /\ fc.days_available >= 2
    /\ Extrapolated(IF fc.days_available < 7 THEN fc.days_available ELSE 7,
                    fc.days_available) < 0
    /\ Len(storage_forecast) = 1
    /\ storage_forecast[1].predicted_mb = QZero
    /\ storage_forecast[1].forecast_date = Today(clock) + 1

----------------------------------------------------------------------------
(* Repeated destructive calls and the tables of the store.                 *)

\* A call that may delete files: a cycle or fifo_cleanup.
DestructiveCall == cycle.kind \in {"fifo_cleanup", "fifo_execute_full", "execute_once"}

\* C19  Cleanup is idempotent in effect: over every sequence of fifo_cleanup
\* and cycle calls no path appears twice in deletion_log, and each call counts
\* and logs only files that it removed itself, which were present when it
\* started; a file already deleted is never counted or logged again.
C19_IdempotentCleanup ==
    /\ \A i, j \in DOMAIN deletion_log :
          deletion_log[i].file_path = deletion_log[j].file_path => i = j
    /\ DestructiveCall =>
          /\ cycle.disk1 \subseteq cycle.disk0
          /\ cycle.rc # FIFO_OK => cycle.disk1 = cycle.disk0 /\ cycle.log1 = cycle.log0
          /\ cycle.rc = FIFO_OK =>
                cycle.files_deleted = Cardinality(cycle.disk0 \ cycle.disk1)
          /\ \A i \in DOMAIN RowsAdded(cycle.log0, cycle.log1) :
                RowsAdded(cycle.log0, cycle.log1)[i].file_path
                    \in cycle.disk0 \ cycle.disk1
          /\ Len(RowsAdded(cycle.log0, cycle.log1)) <= Cardinality(cycle.disk0 \ cycle.disk1)

\* C19 witness: fifo_cleanup ran with a positive amount on a cached scan that
\* still lists a file deleted and logged by an earlier call, and deleted
\* further files.
C19_Witness ==
    /\ cycle.kind = "fifo_cleanup" /\ cycle.rc = FIFO_OK
    /\ QLt(QZero, cycle.amount)
    /\ \E i \in DOMAIN cycle.scan0 :
          /\ cycle.scan0[i].full_path \notin cycle.disk0
          /\ \E j \in DOMAIN cycle.log0 :
                cycle.log0[j].file_path = cycle.scan0[i].full_path
    /\ cycle.files_deleted >= 1
    /\ Len(cycle.log1) > Len(cycle.log0)

IsPrefix(a, b) == Len(a) <= Len(b) /\ SubSeq(b, 1, Len(a)) = a

\* C20  Append-only persistence: every step leaves the rows of storage_history,
\* storage_forecast and deletion_log in place and unchanged and at most adds
\* rows after them; a cycle whose snapshot writes succeed adds one row per
\* aggregate of its scan, also when rows of the same key and date exist.
C20_AppendOnly ==
    [][/\ IsPrefix(storage_history, storage_history')
       /\ IsPrefix(storage_forecast, storage_forecast')
       /\ IsPrefix(deletion_log, deletion_log')
       /\ (cycle' # cycle /\ cycle'.kind \in {"fifo_execute_full", "execute_once"}
             /\ cycle'.rc = FIFO_OK /\ cycle'.snapshot_rc = 0) =>
              Len(storage_history') = Len(storage_history)
                  + Cardinality({AggKey(Catalog(p), FIFO_GRAN_ASSET_IDX_CAT) : p \in disk})]_vars

\* C20 witness: two rows of storage_history with the same asset, index,
\* category and date.
C20_Witness ==
    \E i, j \in DOMAIN storage_history :
        /\ i < j
        /\ storage_history[i].asset = storage_history[j].asset
        /\ storage_history[i].index_val = storage_history[j].index_val
        /\ storage_history[i].category = storage_history[j].category
        /\ storage_history[i].date = storage_history[j].date

----------------------------------------------------------------------------
(* The scheduler's worker and the callers of the facade.                   *)

\* The worker is inside execute_once, its connection to the store open.
InCycle == worker.pc = "cycle"

\* A caller is inside a facade operation, holding g_mutex.
InFacade == \E c \in Callers : callers[c].pc = "locked"

\* C12  Cycle/facade mutual exclusion: the worker is inside a cycle only while
\* it holds g_mutex, and never while a caller is inside a locked facade
\* operation.
C12_MutualExclusion ==
    /\ ~(InCycle /\ InFacade)
    /\ InCycle => g_mutex = "worker"

StartOps == {"fifo_schedule_start", "fifo_schedule_start_interval"}

StopSteps == {"stop_test", "join"}

\* The caller c takes the is_running() test of fifo_schedule_start or
\* fifo_schedule_start_interval.
StartCalled(c) == callers[c].pc = "is_running" /\ callers'[c].pc # "is_running"

\* C15  start() while Running is a no-op: a call of fifo_schedule_start or
\* fifo_schedule_start_interval that finds the scheduler running returns
\* FIFO_ERR_BUSY and leaves the flag, the configuration, last_run_ and the
\* worker thread as they were; Scheduler::start itself returns without a
\* change when it finds the flag set.
C15_StartWhileRunning ==
    [][\A c \in Callers :
          /\ (StartCalled(c) /\ g_scheduler.running_) =>
                /\ callers'[c].pc = "idle"
                /\ callers'[c].rc = FIFO_ERR_BUSY
                /\ g_scheduler' = g_scheduler
                /\ worker' = worker
                /\ process' = process
          /\ (callers[c].pc = "start" /\ callers'[c].pc # "start" /\ g_scheduler.running_) =>
                /\ callers'[c].pc = "idle"
                /\ g_scheduler' = g_scheduler
                /\ worker' = worker
                /\ process' = process]_vars

\* C15 witness: with the first worker asleep and the flag set, a start call
\* with another configuration than the running one returned FIFO_ERR_BUSY.
C15_Witness ==
    \E c \in Callers :
        /\ callers[c].pc = "idle" /\ callers[c].op \in StartOps
        /\ callers[c].rc = FIFO_ERR_BUSY
        /\ callers[c].cfg # g_scheduler.config_
        /\ g_scheduler.running_
        /\ worker.id = 1 /\ worker.pc \in {"sleep", "slice"}
        /\ process = "running"

\* The caller c returns from fifo_schedule_stop.
StopReturns(c) ==
    /\ callers[c].op = "fifo_schedule_stop"
    /\ callers[c].pc \in StopSteps
    /\ callers'[c].pc = "idle"

\* No other caller is inside a start or stop call.
OthersQuiet(c) ==
    \A d \in Callers \ {c} : callers[d].pc \notin {"is_running", "start", "assign", "spawn"} \cup StopSteps

\* Stopped: the flag clear and no thread in thread_.
Stopped == ~g_scheduler.running_ /\ worker.pc = "none"

\* C13  Scheduler cancellation: when stop() returns, the thread it joined had
\* left run_loop and thread_ holds no thread; with no other start or stop
\* call in progress is_running() is then false.  A thread that left run_loop
\* takes no further step, and every cycle is a step of a live worker inside
\* execute_once.  A start() finding no thread in thread_ spawns a new worker at
\* the top of run_loop, and stop() while Stopped changes nothing.
C13_Cancellation ==
    [][/\ \A c \in Callers :
             /\ StopReturns(c) =>
                   /\ worker.pc \in {"exited", "none"}
                   /\ worker'.pc = "none"
                   /\ OthersQuiet(c) => Stopped'
             /\ (callers[c].pc = "spawn" /\ callers'[c].pc = "idle") =>
                   /\ worker.pc = "none"
                   /\ worker' = [pc |-> "loop", id |-> worker.id + 1, i |-> 0,
                                 wait_secs |-> 0, rc |-> 0]
             /\ (Stopped /\ OthersQuiet(c) /\ callers'[c] # callers[c]
                   /\ "fifo_schedule_stop" \in {callers[c].op, callers'[c].op}) =>
                   /\ Stopped'
                   /\ g_scheduler' = g_scheduler
                   /\ <<disk, deletion_log, storage_history, storage_forecast,
                        last_run, cycle, process>>' =
                      <<disk, deletion_log, storage_history, storage_forecast,
                        last_run, cycle, process>>
       /\ worker.pc \in {"exited", "none"} =>
             /\ worker'.pc \in {"exited", "none", "loop"}
             /\ cycle' = cycle /\ disk' = disk /\ deletion_log' = deletion_log
             /\ storage_history' = storage_history
             /\ storage_forecast' = storage_forecast
       /\ cycle' # cycle => worker.pc \in {"open", "cycle"}]_vars

\* C13 witness: a second worker sleeps in run_loop, spawned by a start() after
\* a stop() had joined the first one, which had run a cycle.
C13_Witness ==
    /\ worker.id = 2 /\ worker.pc \in {"sleep", "slice"}
    /\ g_scheduler.running_
    /\ cycle.kind = "execute_once"
    /\ \A c \in Callers : callers[c].pc = "idle"
    /\ process = "running"

\* C14  Bounded response to cancellation: while a stop() that stored the flag
\* during the worker's sleep has not returned, the worker sleeps at most one
\* more slice and starts no cycle, and the process is not terminated.
C14_BoundedCancellation ==
    \A c \in Callers :
        (callers[c].pc \in StopSteps /\ callers[c].asleep) =>
            /\ process = "running"
            /\ callers[c].slices <= 1
            /\ worker.pc \notin {"open", "cycle", "record"}

\* The worker is back in run_loop from a cycle that returned an error.
CycleFailed == worker.pc = "record" /\ worker.rc # FIFO_OK

----------------------------------------------------------------------------
(* The reap under failing deletions, and its early exit.                   *)

\* Attempt i of the run did not remove its file.
AttemptFailed(i) == run.attempts[i].file.full_path \notin (run.disk0 \ disk)

\* The freed total and the deletion count right after attempt i.
FreedAfter(i) ==
    IF i < Len(run.attempts) THEN run.attempts[i + 1].freed ELSE run.mb_freed

CountAfter(i) ==
    IF i < Len(run.attempts) THEN run.attempts[i + 1].count ELSE run.files_deleted

\* The files of entity e that the attempts before attempt i removed.
RemovedBefore(i, e) ==
    {k \in 1..(i - 1) : ~AttemptFailed(k) /\ EntityKey(run.attempts[k].file) = e}

\* C27  Failure tolerance of the reap: an attempt whose DeleteFileA fails leaves
\* the freed total and the deletion count as they were and adds no audit row for
\* its file; the survivor counter that every attempt sees is the entity's file
\* count less the files actually removed before it; and the loop goes on: a file
\* old enough, of an entity still above the floor, left on disk by a run that
\* reached neither budget nor cap, was attempted.
C27_FailureTolerance ==
    run.called =>
        /\ \A i \in DOMAIN run.attempts :
              /\ run.attempts[i].survivors
                    = StartCount(EntityKey(run.attempts[i].file))
                        - Cardinality(RemovedBefore(i, EntityKey(run.attempts[i].file)))
              /\ AttemptFailed(i) =>
                    /\ FreedAfter(i) = run.attempts[i].freed
                    /\ CountAfter(i) = run.attempts[i].count
                    /\ \A j \in DOMAIN RowsOfRun :
                          RowsOfRun[j].file_path # run.attempts[i].file.full_path
        /\ \A i \in DOMAIN run.attempts : \A j \in DOMAIN run.attempts :
              i < j => run.attempts[i].file.created_time <= run.attempts[j].file.created_time
        /\ \A f \in Range(run.files0) :
              ( /\ LeftBehind(f)
                /\ f.created_time <= run.now - run.min_retention_hours * 3600
                /\ StartCount(EntityKey(f)) - Cardinality(RemovedOf(EntityKey(f))) > 5 )
              => \E i \in DOMAIN run.attempts : run.attempts[i].file = f

\* C27 witness: an entity of 7 files whose oldest file could not be deleted and
\* whose next two files were then deleted, down to the floor of 5.
C27_Witness ==
    /\ run.called /\ Len(run.attempts) = 3
    /\ StartCount(E1) = 7
    /\ \A i \in 1..3 : EntityKey(run.attempts[i].file) = E1
    /\ AttemptFailed(1) /\ ~AttemptFailed(2) /\ ~AttemptFailed(3)
    /\ run.files_deleted = 2 /\ Len(RowsOfRun) = 2

\* C28  Early exit leaves everything unchanged: a call of execute_cleanup with an
\* empty list or with amount_to_delete_mb <= 0 reports files_deleted = 0 and
\* mb_freed = 0 and leaves the filesystem, the deletion log and the list (its
\* order included) as they were; a call of fifo_cleanup with cached
\* total_mb - limit_mb * target_pct <= 0 deletes and logs nothing.
C28_EarlyExit ==
    [][ /\ ( /\ run' # run
              /\ (run'.files0 = <<>> \/ QLe(run'.amount, QZero)) )
           => /\ run'.files_deleted = 0 /\ run'.mb_freed = 0
              /\ disk' = disk /\ deletion_log' = deletion_log /\ files' = files
        /\ ( /\ ncycles' # ncycles /\ cycle'.kind = "fifo_cleanup"
              /\ \E t \in TargetPcts :
                    QLe(QSub(QInt(g_last_scan.total_mb), QMul(QInt(cycle'.limit_mb), t)),
                        QZero) )
           => /\ cycle'.files_deleted = 0 /\ cycle'.mb_freed = 0
              /\ disk' = disk /\ deletion_log' = deletion_log
    ]_vars

\* C28 witness: execute_cleanup called with amount <= 0 on a list that is not in
\* age order, and fifo_cleanup called on a cached scan of 8 MB against a target
\* of 14 MB; the old files of the list are all still there.
C28_Witness ==
    /\ run.called /\ QLe(run.amount, QZero) /\ files = run.files0
    /\ \E i \in DOMAIN files : \E j \in DOMAIN files :
          i < j /\ files[i].created_time > files[j].created_time
    /\ cycle.kind = "fifo_cleanup" /\ QLt(cycle.amount, QZero)
    /\ Len(cycle.scan0) = 4 /\ cycle.files_deleted = 0
    /\ disk = Paths(files) /\ deletion_log = <<>>

----------------------------------------------------------------------------
(* Where the list that the Reaper is handed comes from.                    *)

\* The last call handed a list to execute_cleanup.
ReaperCalled ==
    \/ CycleRan /\ CycleCompleted /\ cycle.reaper_invoked
    \/ cycle.kind = "fifo_cleanup" /\ cycle.rc = FIFO_OK /\ QLt(QZero, cycle.amount)

\* The same files, in some order.
SameFiles(a, b) == Len(a) = Len(b) /\ Range(a) = Range(b)

\* C21 (as stated)  No ScannedFile crosses a cycle boundary: a call that hands
\* a file list to the Reaper is a cycle, and the list is the one its own scan
\* produced; fifo_cleanup, which scans nothing, never hands the Reaper a list
\* that an earlier fifo_execute_full left behind.
C21_NoListCrossesCycle ==
    ReaperCalled =>
        /\ CycleRan
        /\ cycle.handed = FilesInWalkOrder(cycle.disk0)

\* C21 (amended)  A cycle (fifo_execute_full, Scheduler::execute_once) hands the
\* Reaper the list that its own scan of the tree produced; fifo_execute_full
\* leaves that list, reordered by the reap at most, in the facade's cache and
\* execute_once leaves the cache alone; fifo_cleanup hands the Reaper the
\* cached list, which an earlier call produced, and keeps its files cached.
C21_ListProvenance ==
    [][ ncycles' # ncycles =>
          /\ (CycleRan /\ CycleCompleted /\ cycle.reaper_invoked)' =>
                cycle'.handed = FilesInWalkOrder(disk)
          /\ (cycle.kind = "fifo_execute_full" /\ CycleCompleted)' =>
                SameFiles(g_last_scan'.all_files, FilesInWalkOrder(disk))
          /\ cycle'.kind = "execute_once" => g_last_scan' = g_last_scan
          /\ cycle'.kind = "fifo_cleanup" =>
                /\ cycle'.scan0 = g_last_scan.all_files
                /\ SameFiles(g_last_scan'.all_files, g_last_scan.all_files)
    ]_vars

\* C21 witness: fifo_cleanup handed the Reaper a cached list naming a file that
\* the fifo_execute_full before it had already deleted.
C21_Witness ==
    /\ cycle.kind = "fifo_cleanup" /\ cycle.rc = FIFO_OK /\ QLt(QZero, cycle.amount)
    /\ \E i \in DOMAIN cycle.scan0 : cycle.scan0[i].full_path \notin cycle.disk0
    /\ last_run.set

\* A second cycle that reaped, after a cycle whose reap had reordered the cache.
C21_FreshWitness ==
    /\ cycle.kind = "fifo_execute_full" /\ CycleCompleted /\ cycle.reaper_invoked
    /\ cycle.last_run0.set /\ cycle.files_deleted >= 1

----------------------------------------------------------------------------
(* The facade's single operations, read off the record of the last call.   *)

\* The snapshot rows the last call added.
SnapshotsAdded == RowsAdded(cycle.history0, cycle.history1)

\* The (asset, index, category) key of a snapshot row.
RowKey(r) == <<r.asset, r.index_val, r.category>>

\* The files of the tree the call found whose entity projects to key k at
\* granularity g.
FilesUnder(k, g) == {p \in cycle.disk0 : AggKey(Catalog(p), g) = k}

RECURSIVE SumCatalog(_)
SumCatalog(P) ==
    IF P = {} THEN 0 ELSE LET p == CHOOSE x \in P : TRUE
                          IN  CatalogSize(p) + SumCatalog(P \ {p})

\* C24  Scan with zero files: with the store open, fifo_scan on a tree with no
\* schema-valid file returns ERR_NODATA and adds no snapshot row; on a tree with
\* a valid file, when every insert succeeds it returns OK and adds exactly one
\* row per aggregation entry -- one per distinct projected key of the files, with
\* their count and size -- each dated today, and when an insert fails it returns
\* ERR_DB having added fewer rows than entries.
C24_ScanZeroFiles ==
    (cycle.kind = "fifo_scan" /\ cycle.open) =>
        /\ cycle.disk0 = {} =>
              /\ cycle.rc = FIFO_ERR_NODATA
              /\ cycle.history1 = cycle.history0
        /\ (cycle.disk0 # {} /\ cycle.write_rc = 0) =>
              /\ cycle.rc = FIFO_OK
              /\ IsPrefix(cycle.history0, cycle.history1)
              /\ \E g \in ScanGranularities :
                    /\ {RowKey(SnapshotsAdded[i]) : i \in DOMAIN SnapshotsAdded}
                          = {AggKey(Catalog(p), g) : p \in cycle.disk0}
                    /\ \A i \in DOMAIN SnapshotsAdded :
                          /\ SnapshotsAdded[i].date = Today(cycle.at)
                          /\ SnapshotsAdded[i].file_count
                                = Cardinality(FilesUnder(RowKey(SnapshotsAdded[i]), g))
                          /\ SnapshotsAdded[i].size_mb
                                = SumCatalog(FilesUnder(RowKey(SnapshotsAdded[i]), g))
                          /\ \A j \in DOMAIN SnapshotsAdded :
                                RowKey(SnapshotsAdded[i]) = RowKey(SnapshotsAdded[j]) => i = j
        /\ (cycle.disk0 # {} /\ cycle.write_rc # 0) =>
              /\ cycle.rc = FIFO_ERR_DB
              /\ IsPrefix(cycle.history0, cycle.history1)
              /\ Len(SnapshotsAdded) < Len(cycle.scan1.entries)

\* C24 witness: fifo_scan on the empty tree with the store open returned
\* ERR_NODATA after earlier calls, leaving an empty store.
C24_Witness ==
    /\ cycle.kind = "fifo_scan" /\ cycle.open /\ cycle.disk0 = {}
    /\ cycle.rc = FIFO_ERR_NODATA /\ storage_history = <<>> /\ ncycles >= 2

\* A second fifo_scan of the day added two rows, for (PUMP,1,E) and (PUMP,1,F),
\* to a history that held a row already.
C24_RowsWitness ==
    /\ cycle.kind = "fifo_scan" /\ cycle.rc = FIFO_OK
    /\ Len(cycle.history0) >= 1 /\ Len(SnapshotsAdded) = 2
    /\ SnapshotsAdded[1].file_count = 3 /\ SnapshotsAdded[2].file_count = 1

\* C25  Store errors surface at the API boundary: a fifo_scan or fifo_forecast
\* call returns ERR_DB whenever the store is not open or a store write of the
\* call fails, and a call that finds the store not open leaves the cached scan,
\* the cached forecast, the store's tables and the filesystem unchanged.
C25_StoreErrorsSurface ==
    cycle.kind \in {"fifo_scan", "fifo_forecast"} =>
        /\ (~cycle.open \/ cycle.write_rc # 0) => cycle.rc = FIFO_ERR_DB
        /\ ~cycle.open =>
              /\ cycle.scan1 = cycle.scan0 /\ cycle.forecast1 = cycle.forecast0
              /\ cycle.history1 = cycle.history0 /\ cycle.forecasts1 = cycle.forecasts0
              /\ cycle.disk1 = cycle.disk0 /\ cycle.log1 = cycle.log0

----------------------------------------------------------------------------
(* The configuration table as a key-value map.                             *)

\* The rows of a table that carry key k.
RowsOf(table, k) == {i \in DOMAIN table : table[i].key = k}

\* The values a table holds under key k.
ValuesOf(table, k) == {table[i].value : i \in RowsOf(table, k)}

\* C26  Config is an upsert key-value map: the table never holds two rows of one
\* key; a set_config(k, v) that succeeds leaves exactly the value v under k and
\* the values under every other key as they were, and one that fails changes
\* nothing; a get_config(k, d) whose SELECT runs returns the value held under k
\* -- by the above, that of the most recent successful set_config(k, .) -- and
\* returns d when no row has key k; it changes nothing.
C26_ConfigUpsert ==
    [][ /\ \A k \in ConfigKeys : Cardinality(RowsOf(configuration', k)) <= 1
        /\ (cycle' # cycle /\ cycle'.kind = "fifo_set_config") =>
              IF cycle'.rc = FIFO_OK
              THEN /\ ValuesOf(configuration', cycle'.key) = {cycle'.value}
                   /\ \A k \in ConfigKeys \ {cycle'.key} :
                         ValuesOf(configuration', k) = ValuesOf(configuration, k)
              ELSE configuration' = configuration
        /\ (cycle' # cycle /\ cycle'.kind = "fifo_get_config" /\ cycle'.rc = FIFO_OK) =>
              /\ configuration' = configuration
              /\ cycle'.ok =>
                    IF RowsOf(configuration, cycle'.key) = {}
                    THEN cycle'.value = ""
                    ELSE ValuesOf(configuration, cycle'.key) = {cycle'.value}
    ]_vars

\* C26 witness: set_config overwrote the value "10" of a key by "20" while the
\* other key was set; the table holds one row for each key, the other key's
\* value as before.
C26_Witness ==
    /\ cycle.kind = "fifo_set_config" /\ cycle.rc = FIFO_OK
    /\ cycle.key = "limit_mb" /\ cycle.value = "20"
    /\ ValuesOf(cycle.table0, "limit_mb") = {"10"}
    /\ ValuesOf(cycle.table0, "root_path") = {"10"}
    /\ configuration = cycle.table1 /\ Len(configuration) = 2
    /\ ValuesOf(configuration, "limit_mb") = {"20"}
    /\ ValuesOf(configuration, "root_path") = {"10"}

\* get_config returned the value written last, and "" for a key never set.
C26_GetWitness ==
    /\ cycle.kind = "fifo_get_config" /\ cycle.rc = FIFO_OK /\ cycle.ok
    /\ cycle.key = "limit_mb" /\ cycle.value = "20"
    /\ configuration = <<[key |-> "limit_mb", value |-> "20"]>>

----------------------------------------------------------------------------
(* The facade's lock and the operations of the scheduler.                  *)

\* The caller c is inside one of the operations the claim lists: it has
\* entered fifo_schedule_start, fifo_schedule_start_interval or
\* fifo_get_status and has not returned.
InsideOperation(c) ==
    /\ callers[c].pc # "idle"
    /\ callers[c].op \in StartOps \cup {"fifo_get_status"}

\* C23  Facade operations are totally ordered: no two callers are inside a
\* facade operation at the same time.
C23_TotalOrder ==
    \A c \in Callers : \A d \in Callers :
        (InsideOperation(c) /\ InsideOperation(d)) => c = d

\* C22  stop() cannot be blocked: every stop() call eventually returns.  A call
\* that returns has to find the process alive to its end, so no stop() call is
\* ever pending in a process that std::terminate has ended.
C22_StopReturns ==
    \A c \in Callers :
        (callers[c].op = "fifo_schedule_stop" /\ callers[c].pc # "idle") =>
            process = "running"

----------------------------------------------------------------------------
(* The Scanner on a tree.                                                  *)

ScanCalled == cycle.kind = "scan_directory"

ScanReturned == ScanCalled /\ ~cycle.result.thrown

\* A regular file exactly at ASSET/INDEX/CATEGORY/YEAR/MONTH/DAY/.
Admitted(e) ==
    /\ ~e.is_dir
    /\ Len(e.path) = 7
    /\ IsNumber(e.path[2])
    /\ e.path[3] \in {<<"E">>, <<"F">>}
    /\ IsNumber(e.path[4]) /\ Len(e.path[4]) = 4
    /\ IsNumber(e.path[5]) /\ Len(e.path[5]) = 2
    /\ IsNumber(e.path[6]) /\ Len(e.path[6]) = 2

Listed(e, all_files) == \E i \in DOMAIN all_files : all_files[i].full_path = e.path

\* The entity and the date of the file at a path.
Carries(f) ==
    /\ f.asset = f.full_path[1]
    /\ f.index_val = StoI(f.full_path[2])
    /\ f.index_val >= 0
    /\ f.category = f.full_path[3][1]
    /\ f.date = f.full_path[4] \o <<"-">> \o f.full_path[5] \o <<"-">> \o f.full_path[6]
    /\ Len(f.date) = 10

\* all_files holds the admitted leaves of the tree, each once, and nothing
\* else, each with its entity and date.
AcceptanceHolds(tree, all_files) ==
    /\ \A e \in tree : Listed(e, all_files) <=> Admitted(e)
    /\ \A i \in DOMAIN all_files :
          /\ \E e \in tree : e.path = all_files[i].full_path /\ e.size = all_files[i].size_mb
          /\ Carries(all_files[i])
          /\ \A j \in DOMAIN all_files : all_files[j].full_path = all_files[i].full_path => j = i

\* C29: a scan of any tree returns, and an entry of the tree is in all_files
\* if and only if it is a regular file exactly at
\* ASSET/INDEX/CATEGORY/YEAR/MONTH/DAY/ with INDEX a nonempty digit string,
\* CATEGORY exactly E or F, YEAR four digits, MONTH and DAY two digits; each
\* file of all_files carries its asset, index, category and date YYYY-MM-DD.
C29_ScannerAcceptance ==
    ScanCalled =>
        /\ ~cycle.result.thrown
        /\ AcceptanceHolds(disk, cycle.result.all_files)

\* The part of C29 that the code keeps: a scan that returns lists exactly the
\* admitted files.
C29_AcceptanceWhenReturned ==
    ScanReturned => AcceptanceHolds(disk, cycle.result.all_files)

\* A scan that returned, of a tree with an admitted file and a leaf that is
\* not admitted.
C29_ReturnedWitness ==
    /\ ScanReturned
    /\ \E e \in disk : Admitted(e)
    /\ \E e \in disk : ~Admitted(e)

RECURSIVE SumField(_, _)
SumField(rows, field) ==
    IF rows = <<>> THEN 0 ELSE Head(rows)[field] + SumField(Tail(rows), field)

\* The key the files are rolled up under at a granularity.
ProjectedKey(f, granularity) ==
    CASE granularity = 0 -> <<f.asset, 0 - 1, "*">>
      [] granularity = 1 -> <<f.asset, f.index_val, "*">>
      [] OTHER -> <<f.asset, f.index_val, f.category>>

EntryKey(r) == <<r.asset, r.index_val, r.category>>

\* C30: in the result of a scan of any tree at any granularity, total_files
\* is the length of all_files and the sum of the entries' file_count,
\* total_mb is the sum of the files' size_mb and of the entries' size_mb,
\* entries holds exactly one entry for each distinct projected key of the
\* files, with the count and the size of the files under it, and all_files
\* is the list the scan returns at every other granularity.
C30_AggregateConsistency ==
    ScanReturned =>
        LET r == cycle.result
            g == cycle.granularity
            under(k) == SelectSeq(r.all_files, LAMBDA f : ProjectedKey(f, g) = k)
        IN  /\ r.total_files = Len(r.all_files)
            /\ r.total_files = SumField(r.entries, "file_count")
            /\ r.total_mb = SumField(r.all_files, "size_mb")
            /\ r.total_mb = SumField(r.entries, "size_mb")
            /\ {EntryKey(r.entries[i]) : i \in DOMAIN r.entries}
                  = {ProjectedKey(r.all_files[i], g) : i \in DOMAIN r.all_files}
            /\ \A i \in DOMAIN r.entries : \A j \in DOMAIN r.entries :
                  EntryKey(r.entries[i]) = EntryKey(r.entries[j]) => i = j
            /\ \A i \in DOMAIN r.entries :
                  /\ r.entries[i].file_count = Len(under(EntryKey(r.entries[i])))
                  /\ r.entries[i].size_mb = SumField(under(EntryKey(r.entries[i])), "size_mb")
            /\ \A h \in WalkGranularities :
                  ScanDirectoryOf(disk, cycle.asc, Today(clock), h).all_files = r.all_files

\* A scan at granularity 1 of three files under two indexes of one asset: two
\* entries, one of them of two files.
C30_Witness ==
    /\ ScanReturned
    /\ cycle.granularity = 1
    /\ cycle.result.total_files = 3
    /\ Len(cycle.result.entries) = 2
    /\ \E i \in DOMAIN cycle.result.entries : cycle.result.entries[i].file_count = 2

\* A scan at granularity 0 of files of two assets.
C30_AssetWitness ==
    /\ ScanReturned
    /\ cycle.granularity = 0
    /\ Len(cycle.result.entries) = 2
    /\ cycle.result.total_files = 3

----------------------------------------------------------------------------
(* Which files of an entity a run leaves.                                  *)

NoDeleteFailed == \A i \in DOMAIN run.attempts : ~AttemptFailed(i)

\* C40  Per-entity survivors are the newest files: in a run of execute_cleanup
\* in which no DeleteFileA fails, no file of an entity that is left after the
\* run has a created_time strictly smaller than that of a removed file of the
\* same entity.
C40_SurvivorsNewest ==
    (run.called /\ NoDeleteFailed) =>
        \A f \in RemovedByRun : \A g \in Range(run.files0) \ RemovedByRun :
            EntityKey(f) = EntityKey(g) => g.created_time >= f.created_time

\* C40 witness: a run without failed deletions that removed a file of an entity
\* and left, at the survivor floor, a file of that entity past the retention
\* window that stood before the removed one in the list handed over.
C40_Witness ==
    /\ run.called /\ NoDeleteFailed
    /\ \E i \in DOMAIN run.files0 : \E j \in DOMAIN run.files0 :
          /\ i < j
          /\ EntityKey(run.files0[i]) = EntityKey(run.files0[j])
          /\ run.files0[j] \in RemovedByRun
          /\ run.files0[i] \notin RemovedByRun
          /\ run.files0[i].created_time <= Cutoff(run.now, run.min_retention_hours)

----------------------------------------------------------------------------
(* The survivor floor over several calls of fifo_cleanup on one scan.      *)

\* The files of entity e in the cached scan, and those of them still on disk.
ScannedOf(e) == {f \in Range(g_last_scan.all_files) : EntityKey(f) = e}

OnDiskOf(e) == {f \in ScannedOf(e) : f.full_path \in disk}

\* C35  Survivor floor across repeated cleanups: after one scan followed by any
\* number of fifo_cleanup calls on the cached scan, every entity that had at
\* least 5 files at scan time still has at least 5 files on disk.
C35_FloorAcrossCleanups ==
    run = NoRun =>
        \A e \in {EntityKey(f) : f \in Range(g_last_scan.all_files)} :
            Cardinality(ScannedOf(e)) >= MinSurvivors =>
                Cardinality(OnDiskOf(e)) >= MinSurvivors

\* The floor after the first fifo_cleanup on a scan.
C35_FloorAfterFirstCleanup ==
    (run = NoRun /\ ncycles <= 1) =>
        \A e \in {EntityKey(f) : f \in Range(g_last_scan.all_files)} :
            Cardinality(ScannedOf(e)) >= MinSurvivors =>
                Cardinality(OnDiskOf(e)) >= MinSurvivors

----------------------------------------------------------------------------
(* Two engines that differ in the granularity of their scans.              *)

\* C31  Forecast is independent of scan granularity: two engines that start
\* from the same store and make the same calls on the same trees, differing
\* only in the granularity passed to fifo_scan (one of them scans per asset,
\* the other at any granularity), hold the same total size per
\* date in storage_history and get the same predicted_mb, growth_rate and
\* days_available from fifo_forecast (and persist the same forecast rows).
C31_GranularityIndependence ==
    twin.engaged =>
        /\ DailyTotals(storage_history, <<>>) = DailyTotals(twin.storage_history, <<>>)
        /\ g_last_forecast.predicted_mb = twin.g_last_forecast.predicted_mb
        /\ g_last_forecast.growth_rate = twin.g_last_forecast.growth_rate
        /\ g_last_forecast.days_available = twin.g_last_forecast.days_available
        /\ storage_forecast = twin.storage_forecast

\* C31 witness: after scans at different granularities on two days the two
\* histories hold different rows, and the forecast just computed from them has
\* a growth rate other than zero.
C31_Witness ==
    /\ twin.engaged
    /\ Len(storage_history) # Len(twin.storage_history)
    /\ cycle.kind = "fifo_forecast"
    /\ g_last_forecast.days_available >= 2
    /\ g_last_forecast.growth_rate # QZero

----------------------------------------------------------------------------
(* Several scans on one calendar day.                                      *)

\* The rows of a history dated d, those of them under the key of an entry, and
\* their total size.
RowsOn(history, d) == SelectSeq(history, LAMBDA r : r.date = d)

RowsUnder(history, e) == SelectSeq(RowsOn(history, e.date), LAMBDA r : RowKey(r) = EntryKey(e))

SumOn(history, d) == SumField(RowsOn(history, d), "size_mb")

DatesOf(history) == {history[i].date : i \in DOMAIN history}

\* C34  Repeated cycles on one day over-count that day: every scan that is
\* stored appends one row per entity dated today, whatever rows of that date
\* the history holds already, so that k scans on a day leave k rows per entity;
\* the forecaster's total of the day is the sum of all the rows of that date, so
\* each scan adds the tree's total to it; and days_available counts every date
\* once.
C34_SameDayScansAdd ==
    [][ /\ (ncycles' # ncycles /\ cycle'.kind = "fifo_scan" /\ cycle'.rc = FIFO_OK) =>
              LET scan == cycle'.scan1
                  today == Today(clock)
              IN  /\ Len(storage_history') = Len(storage_history) + Len(scan.entries)
                  /\ \A i \in DOMAIN scan.entries :
                        /\ scan.entries[i].date = today
                        /\ Len(RowsUnder(storage_history', scan.entries[i]))
                              = Len(RowsUnder(storage_history, scan.entries[i])) + 1
                  /\ DailyTotals(storage_history', <<>>)[today]
                        = SumOn(storage_history, today) + scan.total_mb
                  /\ \A d \in DatesOf(storage_history) \ {today} :
                        DailyTotals(storage_history', <<>>)[d] = SumOn(storage_history, d)
        /\ (ncycles' # ncycles /\ cycle'.kind = "fifo_forecast") =>
              /\ g_last_forecast'.days_available
                    = Cardinality({d \in DatesOf(storage_history) :
                                       d >= Today(clock) - HistoryDays})
              /\ \A d \in DatesOf(storage_history) :
                    DailyTotals(storage_history, <<>>)[d] = SumOn(storage_history, d)
    ]_vars

\* C34 witness: a forecast after two scans of the unchanged 20 MB tree on one
\* day: two rows under each key, a total of 40 MB for the day, one day
\* available.
C34_Witness ==
    /\ twin.engaged /\ cycle.kind = "fifo_forecast" /\ disk = CatalogPaths
    /\ DatesOf(storage_history) = {Today(clock)}
    /\ \A i \in DOMAIN storage_history :
          Len(SelectSeq(storage_history, LAMBDA r : RowKey(r) = RowKey(storage_history[i]))) = 2
    /\ DailyTotals(storage_history, <<>>)[Today(clock)] = 2 * SumField(g_last_scan.all_files, "size_mb")
    /\ g_last_forecast.days_available = 1
    /\ g_last_forecast.current_mb = QInt(20)

----------------------------------------------------------------------------
(* Two runs of a cycle that differ in target_pct.                          *)

\* max(0, predicted_mb - 70 % of limit_mb)
ReclaimToSeventy(predicted_mb, limit_mb) ==
    LET over == QSub(predicted_mb, Q(7 * limit_mb, 10))
    IN  IF QLt(over, QZero) THEN QZero ELSE over

\* C39  target_pct does not influence the full pipeline: two runs of
\* fifo_execute_full, or of a scheduled cycle, on the same store, tree,
\* granularity and limit_mb that differ only in target_pct return the same code,
\* the same action, remove the same files and report and store the same
\* result; the amount a cycle asks the Reaper for is the forecast less 70 % of
\* limit_mb; fifo_cleanup asks for the cached scan total less
\* limit_mb * target_pct.
C39_TargetPctIgnored ==
    /\ (CycleRan /\ twin.engaged) =>
          /\ twin.rc = cycle.rc
          /\ cycle.rc = FIFO_OK =>
                /\ twin.action = cycle.action
                /\ twin.removed = cycle.disk0 \ cycle.disk1
                /\ twin.files_deleted = cycle.files_deleted
                /\ twin.mb_freed = cycle.mb_freed
                /\ cycle.log0 \o twin.logged = cycle.log1
                /\ twin.history = cycle.history1
                /\ twin.forecast = cycle.forecast
                /\ cycle.action = FIFO_ACTION_CLEANUP =>
                      QEq(cycle.amount, ReclaimToSeventy(cycle.predicted_mb, cycle.limit_mb))
                /\ cycle.action # FIFO_ACTION_CLEANUP => cycle.files_deleted = 0
    /\ (cycle.kind = "fifo_cleanup" /\ cycle.rc = FIFO_OK) =>
          /\ QEq(cycle.amount,
                 QSub(QInt(SumField(cycle.scan0, "size_mb")),
                      QMul(QInt(cycle.limit_mb), cycle.target_pct)))
          /\ QLe(cycle.amount, QZero) => cycle.files_deleted = 0

\* C39 witness: two runs of a cycle with target_pct 50 % and 70 % that both
\* removed the same file or files, asked for with limit_mb = 20 on a forecast
\* of 20 MB: 6 MB to reclaim.
C39_Witness ==
    /\ CycleRan /\ twin.engaged /\ cycle.rc = FIFO_OK
    /\ twin.target_pct = Q(1, 2) /\ twin.other = Q(7, 10)
    /\ cycle.action = FIFO_ACTION_CLEANUP /\ cycle.limit_mb = 20
    /\ QEq(cycle.amount, QInt(6))
    /\ cycle.files_deleted >= 1 /\ twin.removed # {}

\* A fifo_cleanup with target_pct 90 % of the limit 20 on the cached scan of
\* 20 MB: 2 MB asked for and a file removed.
C39_CleanupWitness ==
    /\ cycle.kind = "fifo_cleanup" /\ cycle.rc = FIFO_OK
    /\ cycle.target_pct = Q(9, 10) /\ QEq(cycle.amount, QInt(2))
    /\ cycle.files_deleted >= 1

----------------------------------------------------------------------------
(* The worker's waits.                                                     *)

IntervalMode == g_scheduler.config_.interval_minutes > 0

DailyMode == g_scheduler.config_.interval_minutes = 0

\* The worker is in the sleep loop of run_loop.
Asleep == worker.pc \in {"sleep", "slice"}

\* A step of the worker between its sleeps: a cycle is started only by the
\* worker, from the flag test behind a sleep loop that the flag let run to
\* its end, and the flag is not set between the two; the test leads into
\* execute_once when the
\* flag is set and out of run_loop otherwise; each call of execute_once counts
\* as one cycle and leads back to the top of run_loop.
OneCyclePerWait ==
    /\ ncycles' # ncycles =>
          /\ worker.pc = "open"
          /\ ncycles' = ncycles + 1
          /\ worker'.pc \in {"cycle", "record"}
    /\ (worker'.pc = "open" /\ worker.pc # "open") =>
          worker.pc = "check" /\ g_scheduler.running_
    /\ (worker'.pc = "check" /\ worker.pc # "check") =>
          /\ worker.pc = "sleep"
          /\ g_scheduler.running_ => worker.i = worker.wait_secs
    /\ worker.pc = "check" =>
          /\ g_scheduler'.running_ => g_scheduler.running_
          /\ worker'.pc # "check" =>
                worker'.pc = IF g_scheduler.running_ THEN "open" ELSE "exited"
    /\ (worker.pc = "cycle" /\ worker'.pc # "cycle") => worker'.pc = "record"
    /\ (worker.pc = "record" /\ worker'.pc # "record") => worker'.pc = "loop"
    /\ (worker.pc = "loop" /\ worker'.pc # "loop") => worker'.pc \in {"sleep", "exited"}

\* C32  Interval mode timing: with interval_minutes > 0 every wait of the
\* worker is interval_minutes * 60 one-second slices, from the first one
\* after start() on; the worker starts a cycle only behind a wait slept to its
\* end, one cycle per wait; and a cycle starts no sooner than a full interval
\* after the end of the cycle before it.
C32_IntervalTiming ==
    /\ [][IntervalMode =>
             /\ OneCyclePerWait
             /\ (worker.pc = "loop" /\ worker'.pc = "sleep") =>
                   /\ worker'.i = 0
                   /\ worker'.wait_secs =
                         g_scheduler.config_.interval_minutes * SecondsPerMinute
             /\ (Asleep /\ worker'.pc = "slice") => worker'.wait_secs = worker.wait_secs
             /\ (worker.pc = "slice" /\ worker'.pc = "sleep") =>
                   /\ worker'.i > worker.i /\ worker'.i <= worker.wait_secs
                   /\ clock' - clock = worker'.i - worker.i]_vars
    /\ []((IntervalMode /\ worker.pc \in {"open", "cycle"} /\ g_scheduler.last_run_.set) =>
             clock >= g_scheduler.last_run_.at
                        + g_scheduler.config_.interval_minutes * SecondsPerMinute)

\* C32 witness: the worker started in interval mode is inside its second
\* cycle, a full interval after it recorded the end of the first, which took
\* time.
C32_Witness ==
    /\ IntervalMode /\ worker.id = 1 /\ worker.pc = "cycle"
    /\ ncycles = MaxCycles
    /\ g_scheduler.last_run_.set
    /\ clock = g_scheduler.last_run_.at
                 + g_scheduler.config_.interval_minutes * SecondsPerMinute
    /\ g_scheduler.last_run_.at > cycle.at

\* The time of day of the daily target, in seconds after midnight.
TargetTimeOfDay ==
    g_scheduler.config_.hour * SecondsPerHour + g_scheduler.config_.minute * SecondsPerMinute

TimeOfDay(t) == t % SecondsPerDay

\* C33  Daily mode target: with interval_minutes = 0 the wait computed at the
\* top of each iteration is strictly positive and at most 24 hours and ends at
\* the next instant of hour:minute:00; it is target - now when today's target
\* is still ahead, and runs to tomorrow's target when today's is now or past.
\* The slices of a wait are a second each, a cycle starts at the target
\* instant, and one cycle runs per wait.
C33_DailyTarget ==
    /\ [][DailyMode =>
             /\ OneCyclePerWait
             /\ (worker.pc = "loop" /\ worker'.pc = "sleep") =>
                   /\ worker'.i = 0
                   /\ worker'.wait_secs > 0
                   /\ worker'.wait_secs <= SecondsPerDay
                   /\ TimeOfDay(clock + worker'.wait_secs) = TargetTimeOfDay
                   /\ TargetTimeOfDay > TimeOfDay(clock) =>
                         /\ worker'.wait_secs = TargetTimeOfDay - TimeOfDay(clock)
                         /\ Today(clock + worker'.wait_secs) = Today(clock)
                   /\ TargetTimeOfDay <= TimeOfDay(clock) =>
                         Today(clock + worker'.wait_secs) = Today(clock) + 1]_vars
    /\ []((DailyMode /\ Asleep) =>
             TimeOfDay(clock + worker.wait_secs - worker.i) = TargetTimeOfDay)
    /\ []((DailyMode /\ worker.pc \in {"check", "open", "cycle"}
                /\ g_scheduler.running_) =>
             TimeOfDay(clock) = TargetTimeOfDay)

\* C33 witness: the worker in daily mode, back from a cycle run at the target
\* instant, waits the 24 hours to the same time on the next day.
C33_Witness ==
    /\ DailyMode /\ worker.pc = "slice" /\ worker.i = 0
    /\ worker.wait_secs = SecondsPerDay
    /\ cycle.kind = "execute_once" /\ cycle.at = clock
    /\ g_scheduler.last_run_ = [set |-> TRUE, at |-> clock]

\* C33 witness: started a second before the target, the worker in daily mode
\* waits that second.
C33_AheadWitness ==
    /\ DailyMode /\ worker.pc = "slice" /\ worker.i = 0
    /\ worker.wait_secs = 1
    /\ TimeOfDay(clock) + 1 = TargetTimeOfDay

\* The worker is in its sleep loop with slices of the wait left to sleep.
MidSleep == Asleep /\ worker.i < worker.wait_secs

\* The instant at which the sleeping worker will start its next cycle: the end
\* of the wait it is in.
NextCycleAt == clock + worker.wait_secs - worker.i

\* C38  next_run is truthful: while the flag is clear next_run() returns the
\* empty string, and while the scheduler is running and the worker has part
\* of its wait left to sleep it returns, to the minute, the instant at which
\* the wait ends and the next cycle starts, in daily and in interval mode.
C38_NextRunTruthful ==
    /\ ~g_scheduler.running_ => NextRun(g_scheduler, clock) = NoInstant
    /\ (g_scheduler.running_ /\ MidSleep) =>
          NextRun(g_scheduler, clock) = FormatMinute(NextCycleAt)

\* No caller is inside a start or stop call.
CallersQuiet ==
    \A c \in Callers :
        callers[c].pc \notin {"is_running", "start", "assign", "spawn"} \cup StopSteps

\* A worker that will run further cycles: a thread inside run_loop.
LiveWorker == worker.pc \notin {"none", "exited"}

\* C36  Single worker under races: whatever the interleaving of the start and
\* stop calls of several threads, the assignment of a new thread to thread_ is
\* never made while thread_ holds a joinable thread (the second thread it
\* would start never exists), and, with no start or stop call in progress,
\* is_running() is true only with a worker inside run_loop; a worker that
\* finds the flag clear at its tests runs no further cycle.
C36_SingleWorker ==
    /\ \A c \in Callers :
          ~(callers[c].pc = "spawn" /\ Joinable /\ process = "terminated")
    /\ (CallersQuiet /\ process = "running" /\ IsRunning) => LiveWorker

----------------------------------------------------------------------------
(* The scheduler and the facade's store: one thread starts and stops the  *)
(* scheduler and calls fifo_init and fifo_shutdown.                        *)

\* fifo_shutdown() with the scheduler stopped: its g_scheduler.stop() stores a
\* flag that is clear and finds no thread to join; then g_db.close().
ShutdownStopped == Stopped /\ CallersQuiet /\ FifoShutdown

\* fifo_init(db_path) between the calls of the thread: the scheduler keeps the
\* db_path_ it was started with.
InitBetweenCalls == CallersQuiet /\ FifoInit

\* Before fifo_init, or after fifo_shutdown: g_db is closed, the scheduler as
\* constructed.
InitStore ==
    /\ files = <<>>
    /\ disk = CatalogPaths
    /\ deletion_log = <<>>
    /\ run = NoRun
    /\ ev = NoEval
    /\ clock = NowT
    /\ storage_history = <<>>
    /\ storage_forecast = <<>>
    /\ fc = NoForecast
    /\ configuration = <<>>
    /\ twin = NoTwin
    /\ PipelineIdle
    /\ SchedulerIdle

NextStore == NextWorker \/ InitBetweenCalls \/ ShutdownStopped

SpecStore == InitStore /\ [][NextStore]_vars

\* C37  No scheduled cycle without an open store: the worker's cycle, from
\* its scan to its last write, runs only while the facade's store g_db is open;
\* so a start call made before fifo_init or after fifo_shutdown leads to no
\* cycle that scans, writes rows or deletes files.
C37_NoCycleWithoutStore ==
    [][(worker.pc = "cycle" /\ worker'.pc # "cycle") => g_db_open]_vars

====
